---------------------------- MODULE Spec2Model ----------------------------
(***************************************************************************)
(* A model of the commit-history correlation scripts of Developer-Fixes:   *)
(* bytecode trimming and deployment matching (contracts.py), the identity  *)
(* of findings (objects.py) and the patch-mining walk (patches.py).        *)
(*                                                                         *)
(* Python strings are sequences of one-character strings; Python's None    *)
(* is the value None.                                                      *)
(***************************************************************************)
EXTENDS Integers, Sequences, FiniteSets, TLC

None == "None"

(***************************************************************************)
(* Python string primitives used by contracts.py                           *)
(***************************************************************************)

\* s.startswith(sub, i) for a 0-based position i
OccursAt(s, sub, i) ==
    /\ i >= 0
    /\ i + Len(sub) <= Len(s)
    /\ \A k \in 1..Len(sub) : s[i + k] = sub[k]

\* Mutant of str_rfind: the leftmost occurrence (str.find)
str_rfind_leftmost(s, sub) ==
    LET hits == {i \in 0..Len(s) : OccursAt(s, sub, i)}
    IN  IF hits = {} THEN -1
        ELSE CHOOSE i \in hits : \A j \in hits : i <= j

\* str.rfind: the highest 0-based position of sub in s, -1 when there is none
str_rfind(s, sub) ==
    LET hits == {i \in 0..Len(s) : OccursAt(s, sub, i)}
    IN  IF hits = {} THEN -1
        ELSE CHOOSE i \in hits : \A j \in hits : j <= i

\* A slice bound as Python normalises it: negative counts from the end,
\* the result is clamped to 0..n
SliceIndex(i, n) ==
    LET j == IF i < 0 THEN i + n ELSE i
    IN  IF j < 0 THEN 0 ELSE IF j > n THEN n ELSE j

\* s[a:b]
PySlice(s, a, b) ==
    LET lo == SliceIndex(a, Len(s))
        hi == SliceIndex(b, Len(s))
    IN  IF lo >= hi THEN <<>> ELSE SubSeq(s, lo + 1, hi)

\* s[a:]
PySliceFrom(s, a) == PySlice(s, a, Len(s))

(***************************************************************************)
(* Compiler versions: Version("x.y.z") is <<x, y, z>>                      *)
(***************************************************************************)

VersionLess(v, w) ==
    \/ v[1] < w[1]
    \/ v[1] = w[1] /\ v[2] < w[2]
    \/ v[1] = w[1] /\ v[2] = w[2] /\ v[3] < w[3]

\* Mutant of SimpleSpecGE: the boundary version falls in the lower band
SimpleSpecGE_strict(target, v) == VersionLess(target, v)

\* SimpleSpec('>=target').match(Version(v))
SimpleSpecGE(target, v) == ~VersionLess(v, target)

(***************************************************************************)
(* trim_bytecode                                                           *)
(***************************************************************************)

PROLOGUE_6080 == <<"6","0","8","0","6","0","4","0","5","2">>
PROLOGUE_6060 == <<"6","0","6","0","6","0","4","0","5","2">>
TRAILER_A264 ==
    <<"a","2","6","4","6","9","7","0","6","6","7","3","5","8","2","2">>
TRAILER_A165 ==
    <<"a","1","6","5","6","2","7","a","7","a","7","2","3","0","5","8","2","0">>

V_0_6_0 == <<0, 6, 0>>
V_0_4_22 == <<0, 4, 22>>
V_0_4_7 == <<0, 4, 7>>

trim_bytecode(bytecode, compiler_version) ==
    IF SimpleSpecGE(V_0_6_0, compiler_version)
    THEN PySlice(bytecode, str_rfind(bytecode, PROLOGUE_6080),
                           str_rfind(bytecode, TRAILER_A264))
    ELSE IF SimpleSpecGE(V_0_4_22, compiler_version)
    THEN PySlice(bytecode, str_rfind(bytecode, PROLOGUE_6080),
                           str_rfind(bytecode, TRAILER_A165))
    ELSE IF SimpleSpecGE(V_0_4_7, compiler_version)
    THEN PySliceFrom(bytecode, str_rfind(bytecode, PROLOGUE_6060))
    ELSE bytecode

(***************************************************************************)
(* Inputs of the trimming checks                                           *)
(***************************************************************************)

\* Bytecode strings are concatenations of at most MaxChunks of these pieces
MaxChunks == 4

Chunks ==
    { PROLOGUE_6080, PROLOGUE_6060, TRAILER_A264, TRAILER_A165,
      <<"D","E","A","D","B","E","E","F">>, <<"F","F","F","F">> }

RECURSIVE ChunkStrings(_)
ChunkStrings(n) ==
    IF n = 0 THEN {<<>>}
    ELSE LET shorter == ChunkStrings(n - 1)
         IN  shorter \cup {s \o c : s \in shorter, c \in Chunks}

Bytecodes == ChunkStrings(MaxChunks)

\* Versions on both sides of every band boundary
Versions ==
    { <<0, 4, 6>>, <<0, 4, 7>>, <<0, 4, 21>>, <<0, 4, 22>>,
      <<0, 5, 99>>, <<0, 6, 0>>, <<0, 7, 1>>, <<1, 0, 0>> }

(***************************************************************************)
(* Findings (objects.py, class Vulnerability)                              *)
(*                                                                         *)
(* A Python string is a sequence of tokens here: a name is <<"transfer">>, *)
(* a joined path <<"children", ".", "[*]">>.  A canonical syntax-tree node *)
(* is a dict with a 'type' and a list of 'arguments'.                      *)
(***************************************************************************)

SetOf(seq) == {seq[i] : i \in 1..Len(seq)}

\* not DeepDiff(x, y, ignore_order=True): dicts are compared key by key, a
\* list as the set of its items (order and repetition are ignored)
DeepDiffEmpty(x, y) ==
    /\ DOMAIN x = DOMAIN y
    /\ \A k \in DOMAIN x :
          IF k = "arguments" THEN SetOf(x[k]) = SetOf(y[k]) ELSE x[k] = y[k]

\* sep.join(items), items a sequence of tokens
RECURSIVE JoinTokens(_, _)
JoinTokens(items, sep) ==
    IF Len(items) = 0 THEN <<>>
    ELSE IF Len(items) = 1 THEN <<items[1]>>
    ELSE <<items[1], sep>> \o JoinTokens(Tail(items), sep)

DIGITS == <<"0", "1", "2", "3", "4", "5", "6", "7", "8", "9">>

\* str(n) for an int n >= 0
RECURSIVE str_int(_)
str_int(n) ==
    IF n < 10 THEN <<DIGITS[n + 1]>>
    ELSE str_int(n \div 10) \o <<DIGITS[(n % 10) + 1]>>

\* json.dumps(node, sort_keys=True): the keys in sorted order, a list in the
\* order of its items
json_dumps(node) ==
    <<"{", "arguments", ":", "[">> \o JoinTokens(node.arguments, ",")
        \o <<"]", ",">>
        \o (IF "loc" \in DOMAIN node
            THEN <<"loc", ":", "{", "end", ":", "{", "line", ":">>
                     \o str_int(node.loc.end.line)
                     \o <<"}", ",", "start", ":", "{", "line", ":">>
                     \o str_int(node.loc.start.line) \o <<"}", "}", ",">>
            ELSE <<>>)
        \o <<"type", ":", node.type, "}">>

\* hash(str): hash values are elements of the group the ^ of __hash__ works
\* in, written as sets of generators; different strings get different
\* generators (no accidental collision)
str_hash(s) == {s}

\* x ^ y
Xor(x, y) == (x \ y) \cup (y \ x)

\* Vulnerability.__eq__
Vulnerability_eq(self, other) ==
    /\ self.ast_node_path = other.ast_node_path
    /\ DeepDiffEmpty(self.ast_node, other.ast_node)
    /\ self.contract_name = other.contract_name
    /\ self.function_name = other.function_name
    /\ self.vuln_name = other.vuln_name

\* Vulnerability.__hash__
Vulnerability_hash(self) ==
    Xor(Xor(Xor(Xor(str_hash(self.ast_node_path),
                    str_hash(json_dumps(self.ast_node))),
                str_hash(self.contract_name)),
            str_hash(self.function_name)),
        str_hash(self.vuln_name))

\* The structural paths get_node_and_node_path builds for the first contract
\* of a file, '.'-joined
PATH_STATE == JoinTokens(<<"children", "[*]", "subNodes", "[*]">>, ".")
PATH_STATEMENT ==
    JoinTokens(<<"children", "[*]", "subNodes", "[*]",
                 "body", "statements", "[*]">>, ".")

\* Lists of a node hold at most MaxArgs items
MaxArgs == 2

RECURSIVE SeqsUpTo(_, _)
SeqsUpTo(S, n) ==
    IF n = 0 THEN {<<>>}
    ELSE LET shorter == SeqsUpTo(S, n - 1)
         IN  shorter \cup {Append(q, x) : q \in shorter, x \in S}

AstNodes ==
    [type : {"ExpressionStatement"}, arguments : SeqsUpTo({"a", "b"}, MaxArgs)]

Vulnerabilities ==
    [vuln_name : {<<"reentrancy-eth">>, <<"suicidal">>},
     contract_file_path : {<<"A.sol">>, <<"B.sol">>},
     contract_name : {<<"Token">>},
     function_name : {<<"transfer">>, <<"withdraw">>},
     line_num : {<<5>>, <<9>>},
     ast_node_path : {PATH_STATE, PATH_STATEMENT},
     ast_node : AstNodes]

(***************************************************************************)
(* Output rows: the Vulnerabilities column (objects.py, contracts.py)      *)
(***************************************************************************)

\* The 1-based position of the first token of s equal to sep, 0 without one
FirstIndex(s, sep) ==
    IF \E i \in 1..Len(s) : s[i] = sep
    THEN CHOOSE i \in 1..Len(s) : s[i] = sep /\ \A j \in 1..(i - 1) : s[j] # sep
    ELSE 0

\* s.split(sep): the pieces between the separators, [s] without one
RECURSIVE str_split(_, _)
str_split(s, sep) ==
    LET i == FirstIndex(s, sep)
    IN  IF i = 0 THEN <<s>>
        ELSE <<SubSeq(s, 1, i - 1)>> \o str_split(SubSeq(s, i + 1, Len(s)), sep)

\* s.split(sep, maxsplit=1)
str_split_once(s, sep) ==
    LET i == FirstIndex(s, sep)
    IN  IF i = 0 THEN <<s>>
        ELSE <<SubSeq(s, 1, i - 1), SubSeq(s, i + 1, Len(s))>>

\* s without its leading "|" tokens
RECURSIVE StripBars(_)
StripBars(s) ==
    IF Len(s) > 0 /\ Head(s) = "|" THEN StripBars(Tail(s)) ELSE s

\* re.split('\)\|*', s)
RECURSIVE re_split_paren(_)
re_split_paren(s) ==
    LET i == FirstIndex(s, ")")
    IN  IF i = 0 THEN <<s>>
        ELSE <<SubSeq(s, 1, i - 1)>>
                 \o re_split_paren(StripBars(SubSeq(s, i + 1, Len(s))))

\* The items of a sequence that are not the empty string, in order
RECURSIVE NonEmpty(_)
NonEmpty(items) ==
    IF Len(items) = 0 THEN <<>>
    ELSE IF Head(items) = <<>> THEN NonEmpty(Tail(items))
    ELSE <<Head(items)>> \o NonEmpty(Tail(items))

\* sep.join(items) for items that are strings
RECURSIVE str_join(_, _)
str_join(items, sep) ==
    IF Len(items) = 0 THEN <<>>
    ELSE IF Len(items) = 1 THEN items[1]
    ELSE items[1] \o <<sep>> \o str_join(Tail(items), sep)

\* x.split(':', maxsplit=1) for every x of value.split(';')
column_parts(value) ==
    [k \in 1..Len(str_split(value, ";")) |->
        str_split_once(str_split(value, ";")[k], ":")]

\* tuple(v + ')' for v in re.split('\)\|*', vuls) if v)
vuls_tuple(found) == [j \in 1..Len(found) |-> found[j] \o <<")">>]

\* The dict comprehension of convert_vuln over the split parts: raises
\* (ValueError) when a part does not unpack into (detectors, vuls)
converted_parts(parts) ==
    IF \E k \in 1..Len(parts) : Len(parts[k]) # 2
    THEN [raised |-> TRUE, items |-> <<>>]
    ELSE [raised |-> FALSE,
          items |-> [k \in 1..Len(parts) |->
              [detectors |-> str_split(parts[k][1], "|"),
               vuls |-> vuls_tuple(NonEmpty(re_split_paren(parts[k][2])))]]]

\* convert_vuln: the column text to its entries (detectors, findings), in
\* order
convert_vuln(value) == converted_parts(column_parts(value))

\* toDictWriterRow's Vulnerabilities column
vulnerabilities_column(items) ==
    str_join([k \in 1..Len(items) |->
                 str_join(items[k].detectors, "|") \o <<":">>
                     \o str_join(items[k].vuls, "|")], ";")

\* f'{v.vuln_name}(' + ':'.join(str(v) for v in v.line_num) + ')'
vuln_text(v) ==
    v.vuln_name \o <<"(">>
        \o str_join([k \in 1..Len(v.line_num) |-> str_int(v.line_num[k])], ":")
        \o <<")">>

\* '<detector>:' + '|'.join(<the texts of the findings>)
detector_text(detector, vulns) ==
    <<detector, ":">> \o str_join([k \in 1..Len(vulns) |-> vuln_text(vulns[k])], "|")

VARIABLES
    vh_a, vh_b,     \* two findings
    vh_eq,          \* vh_a == vh_b
    vh_hash_a,      \* hash(vh_a)
    vh_hash_b,      \* hash(vh_b)
    vh_pc           \* "start", "done" (compared and hashed)

varsHash == <<vh_a, vh_b, vh_eq, vh_hash_a, vh_hash_b, vh_pc>>

NoVulnerability ==
    [vuln_name |-> <<>>, contract_file_path |-> <<>>, contract_name |-> <<>>,
     function_name |-> <<>>, line_num |-> <<>>, ast_node_path |-> <<>>,
     ast_node |-> [type |-> "", arguments |-> <<>>]]

IdleHash ==
    /\ vh_a = NoVulnerability
    /\ vh_b = NoVulnerability
    /\ vh_eq = FALSE
    /\ vh_hash_a = {}
    /\ vh_hash_b = {}
    /\ vh_pc = "idle"

InitHash ==
    /\ vh_a \in Vulnerabilities
    /\ vh_b \in Vulnerabilities
    /\ vh_eq = FALSE
    /\ vh_hash_a = {}
    /\ vh_hash_b = {}
    /\ vh_pc = "start"

(***************************************************************************)
(* Deployment records and the bytecode matcher (contracts.py)              *)
(***************************************************************************)

\* Candidate lists hold at most MaxCandidates addresses
MaxCandidates == 2

Addresses == {"0xA1", "0xA2"}

CODE_BODY_1 == <<"D","E","A","D","B","E","E","F">>
CODE_BODY_2 == <<"C","A","F","E">>
METADATA_1 == <<"F","F","F","F">>
METADATA_2 == <<"0","0">>

\* Runtime bytecodes as etherscan and the compiler give them: the same code
\* with two different metadata sections, and another code
RAW_1 == PROLOGUE_6080 \o CODE_BODY_1 \o TRAILER_A264 \o METADATA_1
RAW_1_OTHER_METADATA == PROLOGUE_6080 \o CODE_BODY_1 \o TRAILER_A264 \o METADATA_2
RAW_2 == PROLOGUE_6080 \o CODE_BODY_2 \o TRAILER_A264 \o METADATA_1

\* What the etherscan page of an address shows
EtherscanPages ==
    [contract_name : {<<"Token">>},
     compiler_version : {<<0, 5, 17>>, <<0, 6, 12>>},
     optimized : BOOLEAN,
     runs : {200},
     verified_bytecode : {RAW_1, RAW_2}]

InvalidCompilation == <<"InvalidCompilation">>

\* What CryticCompile(...).bytecode_runtime(contract_name) gives: a runtime
\* bytecode, or the exception InvalidCompilation
CompilerOutcomes == {RAW_1, RAW_1_OTHER_METADATA, RAW_2, InvalidCompilation}

NoRecord == [deployment_address |-> None]

\* The DeploymentAddressDetails document built from a page (lines 94-107)
DeploymentAddressDetails(deployment_address, page) ==
    [deployment_address |-> deployment_address,
     contract_name |-> page.contract_name,
     compiler_version |-> page.compiler_version,
     optimized |-> page.optimized,
     optimized_runs |-> page.runs,
     blockchain_bytecode |->
         trim_bytecode(page.verified_bytecode, page.compiler_version)]

\* Mutant of get_contract_details_from_etherscan: the page is fetched and
\* the document saved whether or not one is stored
get_contract_details_refetched(store, deployment_address, page) ==
    LET obj == DeploymentAddressDetails(deployment_address, page)
    IN  [obj |-> obj, store |-> [store EXCEPT ![deployment_address] = obj],
         fetched |-> TRUE]

\* get_contract_details_from_etherscan: the stored document when there is
\* one, otherwise the document built from the page, saved.  Gives the
\* document returned and the collection afterwards.
get_contract_details_from_etherscan(store, deployment_address, page) ==
    IF store[deployment_address] # NoRecord
    THEN [obj |-> store[deployment_address], store |-> store,
          fetched |-> FALSE]
    ELSE LET obj == DeploymentAddressDetails(deployment_address, page)
         IN  [obj |-> obj,
              store |-> [store EXCEPT ![deployment_address] = obj],
              fetched |-> TRUE]

\* Lines 142-144
solc_args_of(obj) ==
    IF obj.optimized
    THEN <<"--optimize", "--optimize-runs", obj.optimized_runs>>
    ELSE <<>>

\* Mutant of complie_solc: the compiled bytecode is returned untrimmed
complie_solc_untrimmed(outcome, compiler_version) ==
    IF outcome = InvalidCompilation
    THEN [kind |-> "None", value |-> <<>>]
    ELSE [kind |-> "str", value |-> outcome]

\* Mutant of complie_solc: InvalidCompilation is not caught
complie_solc_uncaught(outcome, compiler_version) ==
    IF outcome = InvalidCompilation
    THEN [kind |-> "raise", value |-> <<>>]
    ELSE [kind |-> "str", value |-> trim_bytecode(outcome, compiler_version)]

\* complie_solc, given what the compiler does: the trimmed bytecode, or None
\* when the compiler raises InvalidCompilation
complie_solc(outcome, compiler_version) ==
    IF outcome = InvalidCompilation
    THEN [kind |-> "None", value |-> <<>>]
    ELSE [kind |-> "str", value |-> trim_bytecode(outcome, compiler_version)]

\* bytecode == obj.blockchain_bytecode (None equals no string)
bytecode_equal(bytecode, obj) ==
    bytecode.kind = "str" /\ bytecode.value = obj.blockchain_bytecode

\* Mutant of verify_next_pc: the loop goes on after a match
verify_next_pc_no_return(bytecode, obj) ==
    IF bytecode.kind = "raise" THEN "raised" ELSE "loop"

\* Where verify_contract_deployment_address is after one candidate: it has
\* returned on a match (line 148), goes on to the next otherwise
verify_next_pc(bytecode, obj) ==
    IF bytecode.kind = "raise" THEN "raised"
    ELSE IF bytecode_equal(bytecode, obj) THEN "returned"
    ELSE "loop"

VARIABLES
    store,          \* the DeploymentAddressDetails collection, by address
    va_addresses,   \* deployment_addresses, the candidate list
    va_i,           \* the position of the next candidate
    va_log,         \* per candidate examined: address, document, compiler outcome
    va_calls,       \* the compiler invocations made, in order
    va_result,      \* the pair returned
    va_pc           \* "loop", "returned", "fetch raised", "raised" (an
                    \* exception of complie_solc left the call)

varsVerify == <<store, va_addresses, va_i, va_log, va_calls, va_result, va_pc>>

IdleVerify ==
    /\ store = [a \in Addresses |-> NoRecord]
    /\ va_addresses = <<>>
    /\ va_i = 0
    /\ va_log = <<>>
    /\ va_calls = <<>>
    /\ va_result = <<None, None>>
    /\ va_pc = "idle"

InitVerify ==
    /\ store = [a \in Addresses |-> NoRecord]
    /\ va_addresses \in SeqsUpTo(Addresses, MaxCandidates)
    /\ va_i = 1
    /\ va_log = <<>>
    /\ va_calls = <<>>
    /\ va_result = <<None, None>>
    /\ va_pc = "loop"

(***************************************************************************)
(* process_contract: the deployment-matching walk of one contract file     *)
(***************************************************************************)

\* The commit log of the file holds NumCommits commits, newest first
NumCommits == 3

\* get_commits(repo, contract_file)
Commits == [k \in 1..NumCommits |-> <<"commit">> \o str_int(k)]

\* contract_deploymentaddr_map: contract name -> candidate addresses
contract_deploymentaddr_map ==
    [name \in {"Token", "Wallet"} |->
        IF name = "Token" THEN <<"0xA1", "0xA2">> ELSE <<"0xA2">>]

\* parsed['children'] of the file at a commit: the top-level declarations
\* (type, name); "Library" has no candidate address
ParsedChildren ==
    { <<>>,
      <<[type |-> "PragmaDirective", name |-> "solidity"],
        [type |-> "ContractDefinition", name |-> "Token"]>>,
      <<[type |-> "ContractDefinition", name |-> "Library"],
        [type |-> "ContractDefinition", name |-> "Wallet"]>>,
      <<[type |-> "ContractDefinition", name |-> "Token"],
        [type |-> "ContractDefinition", name |-> "Wallet"]>> }

ParseError == <<[type |-> "error", name |-> "stderr"]>>

\* What the ground-truth pages of the two addresses show
GroundTruths ==
    [Addresses -> {p \in EtherscanPages :
                      p.optimized = (p.compiler_version = <<0, 6, 12>>)}]

\* The findings a detector's parse step gives for the file; NoVulnerability
\* stands for the None get_vuln_object returns when no node is found
FINDING_1 ==
    [vuln_name |-> <<"reentrancy-eth">>, contract_file_path |-> <<"A.sol">>,
     contract_name |-> <<"Token">>, function_name |-> <<"transfer">>,
     line_num |-> <<5, 12>>, ast_node_path |-> PATH_STATEMENT,
     ast_node |-> [type |-> "ExpressionStatement", arguments |-> <<"a", "b">>]]
FINDING_2 ==
    [vuln_name |-> <<"suicidal">>, contract_file_path |-> <<"A.sol">>,
     contract_name |-> <<"Token">>, function_name |-> <<"kill">>,
     line_num |-> <<9>>, ast_node_path |-> PATH_STATEMENT,
     ast_node |-> [type |-> "ExpressionStatement", arguments |-> <<"c">>]]

\* What a detector run gives: the sentinel 'null', or the findings its parse
\* step builds from the output
NullJson == [null |-> TRUE, vulns |-> <<>>]

Parsed(vulns) == [null |-> FALSE, vulns |-> vulns]

\* execute_slither followed by parse_slither_output
SlitherResults ==
    {NullJson, Parsed(<<>>), Parsed(<<FINDING_1>>),
     Parsed(<<FINDING_1, FINDING_2>>)}

\* execute_oyente followed by parse_oyente_output: some findings are None
OyenteResults ==
    {NullJson, Parsed(<<>>), Parsed(<<FINDING_2>>), Parsed(<<NoVulnerability>>),
     Parsed(<<FINDING_1, NoVulnerability>>)}

\* How verify_contract_deployment_address ends at a candidate whose
\* bytecodes were compared (pc), given how it ends from the next one on
verify_outcome(pc, deployment_address, got, rest) ==
    IF pc = "loop"
    THEN [rest EXCEPT !.compiled = @ + 1]
    ELSE [pc |-> pc,
          address |-> IF pc = "returned" THEN deployment_address ELSE None,
          version |-> IF pc = "returned" THEN got.obj.compiler_version
                      ELSE <<>>,
          store |-> got.store, compiled |-> 1]

\* verify_contract_deployment_address from candidate i on, as a function of
\* the collection, the ground truth and what the compiler gives for each
\* address: how the call ends, the pair returned, the collection afterwards
\* and the number of compiler invocations
RECURSIVE verify_contract_deployment_address(_, _, _, _, _)
verify_contract_deployment_address(st, deployment_addresses, i, pages, outcomes) ==
    IF i > Len(deployment_addresses)
    THEN [pc |-> "returned", address |-> None, version |-> <<>>,
          store |-> st, compiled |-> 0]
    ELSE \* lines 141-148 for candidate i
         CHOOSE result \in
             { verify_outcome(
                   verify_next_pc(
                       complie_solc(outcomes[deployment_addresses[i]],
                                    got.obj.compiler_version),
                       got.obj),
                   deployment_addresses[i], got,
                   verify_contract_deployment_address(got.store,
                       deployment_addresses, i + 1, pages, outcomes)) :
               got \in { get_contract_details_from_etherscan(st,
                             deployment_addresses[i],
                             pages[deployment_addresses[i]]) } } : TRUE

\* Lines 187-192 for one contract declaration, v the outcome of verifying
\* its candidates: without a match the next declaration is looked at
verified_child(v, children, j, rest) ==
    IF v.pc = "returned" /\ v.address = None
    THEN rest
    ELSE [pc |-> v.pc, contract_name |-> children[j].name,
          address |-> v.address, version |-> v.version, store |-> v.store]

\* Lines 182-192 over the children from position j on: the first contract
\* declaration with candidate addresses for which an address verifies
RECURSIVE first_verified_child(_, _, _, _, _)
first_verified_child(st, children, j, pages, outcomes) ==
    IF j > Len(children)
    THEN [pc |-> "returned", contract_name |-> None, address |-> None,
          version |-> <<>>, store |-> st]
    ELSE IF \/ children[j].type # "ContractDefinition"
            \/ children[j].name \notin DOMAIN contract_deploymentaddr_map
    THEN first_verified_child(st, children, j + 1, pages, outcomes)
    ELSE CHOOSE result \in
             { verified_child(v, children, j,
                   first_verified_child(v.store, children, j + 1, pages,
                                        outcomes)) :
               v \in { verify_contract_deployment_address(st,
                           contract_deploymentaddr_map[children[j].name], 1,
                           pages, outcomes) } } : TRUE

\* Lines 194-206: vuln_col at the matched commit; raises (AttributeError)
\* when a finding of Oyente is None
vuln_col_of(slither, oyente) ==
    LET col_s == IF slither.null THEN <<>>
                 ELSE <<detector_text("Slither", slither.vulns)>>
        col_o == IF oyente.null THEN <<>>
                 ELSE <<detector_text("Oyente", oyente.vulns)>>
    IN  IF \E k \in 1..Len(oyente.vulns) : oyente.vulns[k] = NoVulnerability
        THEN [raised |-> TRUE, value |-> <<>>]
        ELSE [raised |-> FALSE, value |-> col_s \o col_o]

\* Contract(...).toDictWriterRow() of lines 210-218: the row written, or the
\* exception of the Vulnerabilities converter
contract_row(contract_name, commit, deployment_address, version, vuln_col) ==
    IF convert_vuln(str_join(vuln_col, ";")).raised
    THEN [raised |-> TRUE, row |-> <<>>]
    ELSE [raised |-> FALSE,
          row |-> [ContractName |-> contract_name,
                   CommitHashes |-> commit,
                   DeploymentAddress |-> deployment_address,
                   SOLC_Version |-> version,
                   Vulnerabilities |->
                       vulnerabilities_column(
                           convert_vuln(str_join(vuln_col, ";")).items)]]

VARIABLES
    pcn_pages,      \* the ground truth: what etherscan shows for each address
    pcn_i,          \* the position in Commits of the next commit of the loop
    pcn_found,      \* found
    pcn_checkouts,  \* the commits checked out, in order
    pcn_analysed,   \* the commits at which a detector was run
    pcn_matched,    \* the commits at which an address verified: the commit,
                    \* the contract, the address, the version and what the
                    \* two detectors gave there
    pcn_rows,       \* the rows appended to Contract.csv
    pcn_pc          \* "loop", "returned", "raised"

varsContract ==
    <<pcn_pages, pcn_i, pcn_found, pcn_checkouts, pcn_analysed, pcn_matched,
      pcn_rows, pcn_pc>>

IdleContract ==
    /\ pcn_pages = <<>>
    /\ pcn_i = 0
    /\ pcn_found = FALSE
    /\ pcn_checkouts = <<>>
    /\ pcn_analysed = <<>>
    /\ pcn_matched = <<>>
    /\ pcn_rows = <<>>
    /\ pcn_pc = "idle"

InitContract ==
    /\ pcn_pages \in GroundTruths
    /\ store = [a \in Addresses |-> NoRecord]
    /\ pcn_i = 1
    /\ pcn_found = FALSE
    /\ pcn_checkouts = <<>>
    /\ pcn_analysed = <<>>
    /\ pcn_matched = <<>>
    /\ pcn_rows = <<>>
    /\ pcn_pc = "loop"

IdleVerifyCall ==
    /\ va_addresses = <<>>
    /\ va_i = 0
    /\ va_log = <<>>
    /\ va_calls = <<>>
    /\ va_result = <<None, None>>
    /\ va_pc = "idle"

(***************************************************************************)
(* Patch mining: process_repo (patches.py)                                 *)
(***************************************************************************)

\* sub in s
str_in(sub, s) == \E i \in 0..Len(s) : OccursAt(s, sub, i)

\* f.endswith('.sol')
endswith_sol(f) == Len(f) > 0 /\ f[Len(f)] = ".sol"

\* The items of a sequence, as a set
Items(s) == {s[k] : k \in 1..Len(s)}

\* The repository and its files, as paths relative to repo_path
REPO_PATH == <<"data", "/", "repo">>
TOKEN_SOL == <<"contracts", "/", "Token", ".sol">>
WALLET_SOL == <<"contracts", "/", "Wallet", ".sol">>
OLD_SOL == <<"contracts", "/", "Old", ".sol">>
LATEST_SOL == <<"contracts", "/", "La", "test", ".sol">>
TEST_FOO_SOL == <<"test", "/", "Foo", ".sol">>
MOCK_SOL == <<"contracts", "/", "mocks", "/", "M", ".sol">>
NODE_SOL == <<"node_modules", "/", "lib", "/", "Lib", ".sol">>
README_MD == <<"README", ".md">>

\* The files of the working tree at HEAD, in the order rglob walks them
WorkingTree ==
    <<TOKEN_SOL, WALLET_SOL, TEST_FOO_SOL, MOCK_SOL, NODE_SOL, README_MD>>

\* str(par) for par in p.parents
Parents(p) ==
    {SubSeq(p, 1, i - 1) : i \in {j \in 1..Len(p) : p[j] = "/"}} \cup {<<".">>}

\* The test of get_sol_files on a relative path: a parent names an excluded
\* directory
in_excluded_dir(p) ==
    \E par \in Parents(p) :
        \E excludeDir \in {"node_modules", "mocks", "test"} :
            str_in(<<excludeDir>>, par)

\* repo_path + '/' + f
abs_path(repo_path, f) == repo_path \o <<"/">> \o f

\* get_sol_files: the .sol files of the tree outside the excluded
\* directories, as absolute paths
RECURSIVE get_sol_files(_, _)
get_sol_files(repo_path, tree) ==
    IF tree = <<>> THEN <<>>
    ELSE IF ~endswith_sol(Head(tree)) \/ in_excluded_dir(Head(tree))
    THEN get_sol_files(repo_path, Tail(tree))
    ELSE <<abs_path(repo_path, Head(tree))>>
             \o get_sol_files(repo_path, Tail(tree))

\* Mutant of changed_sol_files: every changed file is taken
changed_sol_files_all(repo_path, files, current_sol_files) ==
    [k \in 1..Len(files) |-> abs_path(repo_path, files[k])]

\* Lines 284-294: the changed files kept for analysis; the loop stops at the
\* first empty name
RECURSIVE changed_sol_files(_, _, _)
changed_sol_files(repo_path, files, current_sol_files) ==
    IF files = <<>> THEN <<>>
    ELSE IF Head(files) = <<>> THEN <<>>
    ELSE IF \/ ~endswith_sol(Head(files))
            \/ str_in(<<"node_modules">>, Head(files))
            \/ str_in(<<"mocks">>, Head(files))
            \/ str_in(<<"test">>, Head(files))
    THEN changed_sol_files(repo_path, Tail(files), current_sol_files)
    ELSE IF abs_path(repo_path, Head(files)) \in Items(current_sol_files)
    THEN <<abs_path(repo_path, Head(files))>>
             \o changed_sol_files(repo_path, Tail(files), current_sol_files)
    ELSE changed_sol_files(repo_path, Tail(files), current_sol_files)

\* What git log --name-only prints for a commit, split at the line ends
ChangedFileLists ==
    {<<TOKEN_SOL>>, <<README_MD, WALLET_SOL>>, <<TEST_FOO_SOL>>,
     <<README_MD>>, <<LATEST_SOL>>,
     <<OLD_SOL>>, <<MOCK_SOL, NODE_SOL>>, <<README_MD, <<>>, TOKEN_SOL>>,
     <<<<>>>>}

\* The targets of the clauses of a file's solidity pragma (hand-written
\* order), <<>> without a pragma: none, '0.4.11', '^0.5.17'
Pragmas == {<<>>, <<<<0, 4, 11>>>>, <<<<0, 6, 0>>, <<0, 5, 17>>>>}
V_0_4_19 == <<0, 4, 19>>

\* sorted(...) of versions
RECURSIVE sorted_versions(_)
sorted_versions(targets) ==
    IF targets = <<>> THEN <<>>
    ELSE LET least == CHOOSE k \in 1..Len(targets) :
                          \A j \in 1..Len(targets) :
                              ~VersionLess(targets[j], targets[k])
         IN  <<targets[least]>>
                 \o sorted_versions([j \in 1..(Len(targets) - 1) |->
                        IF j < least THEN targets[j] ELSE targets[j + 1]])

\* The loop of get_solc_version over the sorted targets
RECURSIVE first_compatible(_)
first_compatible(given_target) ==
    IF given_target = <<>> THEN [found |-> FALSE, version |-> <<0, 0, 0>>]
    ELSE IF SimpleSpecGE(V_0_4_19, Head(given_target))
    THEN [found |-> TRUE, version |-> Head(given_target)]
    ELSE first_compatible(Tail(given_target))

\* get_solc_version: the least target that is >= 0.4.19; nothing is found
\* without a pragma or without such a target
get_solc_version(targets) == first_compatible(sorted_versions(targets))

\* What the detectors report about a file: the name of the check, the
\* function, the lines and the arguments of the statement found there
REPORT_A ==
    [vuln_name |-> <<"reentrancy-eth">>, function_name |-> <<"withdraw">>,
     line_num |-> <<5>>, arguments |-> <<"a", "b">>]
REPORT_A_REORDERED ==
    [vuln_name |-> <<"reentrancy-eth">>, function_name |-> <<"withdraw">>,
     line_num |-> <<5>>, arguments |-> <<"b", "a">>]
REPORT_B ==
    [vuln_name |-> <<"suicidal">>, function_name |-> <<"withdraw">>,
     line_num |-> <<9>>, arguments |-> <<"c">>]
REPORT_C ==
    [vuln_name |-> <<"reentrancy-eth">>, function_name |-> <<"deposit">>,
     line_num |-> <<7>>, arguments |-> <<"a", "b">>]
\* a line of the report that get_node_and_node_path does not find
REPORT_UNLOCATED ==
    [vuln_name |-> <<"callstack">>, function_name |-> <<"unknown">>,
     line_num |-> <<0>>, arguments |-> <<>>]

\* The Vulnerability object built for a reported finding of sol_file; None
\* when the line is not located (get_vuln_object)
vuln_object(report, sol_file) ==
    IF report = REPORT_UNLOCATED THEN NoVulnerability
    ELSE [vuln_name |-> report.vuln_name,
          contract_file_path |-> sol_file,
          contract_name |-> <<"Token">>,
          function_name |-> report.function_name,
          line_num |-> report.line_num,
          ast_node_path |-> PATH_STATEMENT,
          ast_node |-> [type |-> "ExpressionStatement",
                        arguments |-> report.arguments]]

\* The outputs of the two tools on a file: 'null', or the reported findings
SlitherOutputs == {NullJson, Parsed(<<>>), Parsed(<<REPORT_A>>)}
OyenteOutputs ==
    {NullJson, Parsed(<<REPORT_A>>), Parsed(<<REPORT_A_REORDERED>>),
     Parsed(<<REPORT_B, REPORT_C>>), Parsed(<<REPORT_UNLOCATED>>)}

\* What happens to one file in get_vulnerabilities: the parse fails, or the
\* file has these pragma targets and the tools give these outputs
FileInputs ==
    {[err |-> TRUE, pragma |-> <<>>, slither |-> NullJson, oyente |-> NullJson]}
    \cup [err : {FALSE}, pragma : Pragmas \ {<<<<0, 6, 0>>, <<0, 5, 17>>>>},
          slither : {NullJson}, oyente : {NullJson}]
    \cup [err : {FALSE}, pragma : {<<<<0, 6, 0>>, <<0, 5, 17>>>>},
          slither : SlitherOutputs, oyente : OyenteOutputs]

\* The objects of a sequence that are not None, in order
RECURSIVE Located(_)
Located(vulns) ==
    IF vulns = <<>> THEN <<>>
    ELSE IF Head(vulns) = NoVulnerability THEN Located(Tail(vulns))
    ELSE <<Head(vulns)>> \o Located(Tail(vulns))

\* parse_oyente_output: one object per reported line, None for a line that
\* is not located
parse_oyente_output(out_json, sol_file) ==
    [k \in 1..Len(out_json.vulns) |-> vuln_object(out_json.vulns[k], sol_file)]

\* parse_slither_output: one object per located entry
parse_slither_output(out_json, sol_file) ==
    Located(parse_oyente_output(out_json, sol_file))

\* The tools run for one file, when its version is found
file_tools(sol_file) ==
    <<[tool |-> "parse_solc", file |-> sol_file],
      [tool |-> "slither", file |-> sol_file],
      [tool |-> "oyente", file |-> sol_file]>>

\* get_vulnerabilities from the k-th file on: the findings of each detector
\* and the tools that were run, in order
RECURSIVE get_vulnerabilities(_, _, _)
get_vulnerabilities(sol_files, inputs, k) ==
    IF k > Len(sol_files)
    THEN [slither |-> <<>>, oyente |-> <<>>, tools |-> <<>>]
    ELSE IF inputs[k].err
    THEN CHOOSE r \in
             {[rest EXCEPT !.tools =
                  <<[tool |-> "parse_solc", file |-> sol_files[k]]>> \o @] :
              rest \in {get_vulnerabilities(sol_files, inputs, k + 1)}} : TRUE
    ELSE IF ~get_solc_version(inputs[k].pragma).found
    THEN [slither |-> <<>>, oyente |-> <<>>,
          tools |-> <<[tool |-> "parse_solc", file |-> sol_files[k]]>>]
    ELSE CHOOSE r \in
             {[slither |-> parse_slither_output(inputs[k].slither, sol_files[k])
                               \o rest.slither,
               oyente |-> parse_oyente_output(inputs[k].oyente, sol_files[k])
                               \o rest.oyente,
               tools |-> file_tools(sol_files[k]) \o rest.tools] :
              rest \in {get_vulnerabilities(sol_files, inputs, k + 1)}} : TRUE

\* v in S for a Python set S of findings: a member with the same hash that
\* is equal to v (None is only equal to itself)
py_set_contains(S, v) ==
    IF v = NoVulnerability THEN v \in S
    ELSE \E x \in S \ {NoVulnerability} :
             /\ Vulnerability_hash(x) = Vulnerability_hash(v)
             /\ Vulnerability_eq(x, v)

\* set(items), added to S one by one
RECURSIVE py_set_of(_, _)
py_set_of(items, S) ==
    IF items = <<>> THEN S
    ELSE py_set_of(Tail(items),
                   IF py_set_contains(S, Head(items)) THEN S
                   ELSE S \cup {Head(items)})

\* The findings of get_vulnerabilities in the order lines 306-307 visit them
detector_items(vulnerabilities) ==
    [k \in 1..Len(vulnerabilities.slither) |->
        [detector |-> "slither", v |-> vulnerabilities.slither[k]]]
    \o [k \in 1..Len(vulnerabilities.oyente) |->
        [detector |-> "oyente", v |-> vulnerabilities.oyente[k]]]

\* (v.function_name, v.contract_name, v.contract_file_path)
function_meta(v) ==
    [function_name |-> v.function_name, contract_name |-> v.contract_name,
     contract_file_path |-> v.contract_file_path]

\* s with x added at the end unless it is there
AddOnce(s, x) == IF x \in Items(s) THEN s ELSE Append(s, x)

\* Lines 306-315 from the k-th item on: total_vuln, functions_meta and the
\* new findings of each detector (in the order they were added)
RECURSIVE new_vulnerabilities(_, _, _)
new_vulnerabilities(items, k, acc) ==
    IF k > Len(items) THEN acc
    ELSE IF \/ items[k].v = NoVulnerability
            \/ py_set_contains(acc.total_vuln, items[k].v)
    THEN new_vulnerabilities(items, k + 1, acc)
    ELSE new_vulnerabilities(items, k + 1,
             [total_vuln |-> acc.total_vuln \cup {items[k].v},
              functions_meta |->
                  AddOnce(acc.functions_meta, function_meta(items[k].v)),
              slither |-> IF items[k].detector = "slither"
                          THEN Append(acc.slither, items[k].v)
                          ELSE acc.slither,
              oyente |-> IF items[k].detector = "slither" THEN acc.oyente
                         ELSE Append(acc.oyente, items[k].v)])

\* new_vulns_<detector>[(function_name, contract_name)], <<>> without the key
group_vulns(vulns, function) ==
    SelectSeq(vulns, LAMBDA v :
        /\ v.function_name = function.function_name
        /\ v.contract_name = function.contract_name)

\* A sequence in the opposite order
Reverse(s) == [k \in 1..Len(s) |-> s[Len(s) + 1 - k]]

\* The order a Python set is iterated in: the order of insertion or the
\* opposite one
iteration_order(s, reversed) == IF reversed THEN Reverse(s) ELSE s

\* '<detectors>:' + '|'.join(<the texts of the findings>)
group_text(detectors, vulns) ==
    detectors \o <<":">>
        \o str_join([k \in 1..Len(vulns) |-> vuln_text(vulns[k])], "|")

\* Lines 325-352: the Vulnerabilities text of the row of one function
patch_vuln_col(slither_group, oyente_group, reversed) ==
    str_join(
        (IF slither_group # <<>> /\ oyente_group # <<>>
         THEN <<group_text(<<"Slither", "|", "Oyente">>,
                    iteration_order(slither_group \o oyente_group, reversed))>>
         ELSE <<>>)
        \o (IF slither_group # <<>> /\ oyente_group = <<>>
            THEN <<group_text(<<"Slither">>,
                       iteration_order(slither_group, reversed))>>
            ELSE <<>>)
        \o (IF slither_group = <<>> /\ oyente_group # <<>>
            THEN <<group_text(<<"Oyente">>,
                       iteration_order(oyente_group, reversed))>>
            ELSE <<>>),
        ";")

\* int(s) for a string s of decimal digits
RECURSIVE py_int(_)
py_int(s) ==
    IF s = <<>> THEN 0
    ELSE 10 * py_int(SubSeq(s, 1, Len(s) - 1))
             + (CHOOSE d \in 0..9 : DIGITS[d + 1] = s[Len(s)])

\* s without the tokens of drop (the str.replace calls of line 143)
RECURSIVE str_remove(_, _)
str_remove(s, drop) ==
    IF s = <<>> THEN <<>>
    ELSE IF Head(s) \in drop THEN str_remove(Tail(s), drop)
    ELSE <<Head(s)>> \o str_remove(Tail(s), drop)

\* The branch_commits page of a commit: the text of its pull-request item,
\* <<>> when the page has none
BranchCommitsPages == {<<>>, <<"(", "#", "1", "2", ")">>}

\* get_prid_mergestatus
get_prid_mergestatus(page) ==
    IF page = <<>> THEN [prid |-> <<"null">>, merged_status |-> <<"False">>]
    ELSE [prid |-> str_remove(page, {"(", ")", "#"}),
          merged_status |-> <<"True">>]

\* The issue files of the repository: the id in the file name and the lines
IssueFiles ==
    <<[issue_id |-> <<"7">>,
       lines |-> <<<<"fixed", " ", "by", " ", "#", "1", "2", " ">>>>],
      [issue_id |-> <<"8">>,
       lines |-> <<<<"see", " ", "#", "1", "2", "0", " ">>>>]>>

\* re.findall(prid_ + '\\D', line)
mentions(line, prid_) ==
    \E i \in 0..Len(line) :
        /\ OccursAt(line, prid_, i)
        /\ i + Len(prid_) < Len(line)
        /\ line[i + Len(prid_) + 1] \notin Items(DIGITS)

\* The ids get_issueid collects from the k-th file on: one per matching line
RECURSIVE issue_ids_from(_, _, _)
issue_ids_from(files, k, prid_) ==
    IF k > Len(files) THEN <<>>
    ELSE [j \in 1..Cardinality({n \in 1..Len(files[k].lines) :
                                    mentions(files[k].lines[n], prid_)})
              |-> files[k].issue_id]
         \o issue_ids_from(files, k + 1, prid_)

\* get_issueid
get_issueid(files, prid) ==
    IF prid = <<"null">> THEN <<"null">>
    ELSE str_join(issue_ids_from(files, 1, <<"#">> \o prid), ";")

\* Patch(...).toDictWriterRow() of lines 356-366: every column after its
\* converter and back to text
patch_row(prid, issue_ids, total_commits, merged_status, function, vuln_col) ==
    [PRID |-> IF prid = <<"null">> THEN <<"null">> ELSE str_int(py_int(prid)),
     IssueIDs |->
         IF issue_ids = <<"null">> \/ NonEmpty(str_split(issue_ids, ";")) = <<>>
         THEN <<"null">>
         ELSE str_join([k \in 1..Len(NonEmpty(str_split(issue_ids, ";"))) |->
                  str_int(py_int(NonEmpty(str_split(issue_ids, ";"))[k]))], ";"),
     Commits |-> str_join(str_split(total_commits, ";"), ";"),
     Merged |-> IF merged_status # <<>> THEN <<"True">> ELSE <<"False">>,
     ContractName |-> function.contract_name,
     FunctionName |-> function.function_name,
     ContractFilePath |-> function.contract_file_path,
     Vulnerabilities |-> vulnerabilities_column(convert_vuln(vuln_col).items)]

\* Mutant of joined_commits: only the current commit
joined_commits_current(total_commits) == total_commits[Len(total_commits)]

\* Line 323: ';'.join(total_commits)
joined_commits(total_commits) == str_join(total_commits, ";")

\* Lines 322-366: the rows written at a qualifying commit, one per member
\* of functions_meta in the order the set is iterated
patch_rows(new, metadata, total_commits, reversed) ==
    [k \in 1..Len(new.functions_meta) |->
        patch_row(metadata.prid, get_issueid(IssueFiles, metadata.prid),
            joined_commits(total_commits), metadata.merged_status,
            iteration_order(new.functions_meta, reversed)[k],
            patch_vuln_col(
                group_vulns(new.slither,
                    iteration_order(new.functions_meta, reversed)[k]),
                group_vulns(new.oyente,
                    iteration_order(new.functions_meta, reversed)[k]),
                reversed))]

NumRepoCommits == 3
commit_hashes == [k \in 1..NumRepoCommits |-> <<"commit">> \o str_int(k)]
current_sol_files == get_sol_files(REPO_PATH, WorkingTree)

VARIABLES
    pr_i,             \* the position in commit_hashes of the next commit
    pr_total_vuln,    \* total_vuln
    pr_total_commits, \* total_commits
    pr_last,          \* the last step: the commit, its changed files, the
                      \* findings of get_vulnerabilities, the tools run and
                      \* the rows appended to the patches csv
    pr_emitted,       \* history: for every pass that wrote rows, the position
                      \* of its commit and the Commits column of its rows
    pr_pc             \* "seed", "loop", "done"

varsRepo ==
    <<pr_i, pr_total_vuln, pr_total_commits, pr_last, pr_emitted, pr_pc>>

\* No pull request and merge status were asked for
NoMetadata == [prid |-> <<>>, merged_status |-> <<>>]

NoStep ==
    [commit |-> <<>>, files |-> <<>>, slither |-> <<>>, oyente |-> <<>>,
     tools |-> <<>>, metadata |-> NoMetadata, rows |-> <<>>]

IdleRepo ==
    /\ pr_i = 0
    /\ pr_total_vuln = {}
    /\ pr_total_commits = <<>>
    /\ pr_last = NoStep
    /\ pr_emitted = <<>>
    /\ pr_pc = "idle"

InitRepo ==
    /\ pr_i = 1
    /\ pr_total_vuln = {}
    /\ pr_total_commits = <<>>
    /\ pr_last = NoStep
    /\ pr_emitted = <<>>
    /\ pr_pc = "seed"

(***************************************************************************)
(* Syntax trees and the detector adapters (utils.py, detector_slither.py,  *)
(* detector_oyente.py)                                                     *)
(*                                                                         *)
(* A syntax tree is the dict solidity_parser prints: 'children' holds the  *)
(* pragma and the contracts, a contract holds 'subNodes', a function a     *)
(* 'body' with 'statements', a struct its 'members'.  Every node has a     *)
(* 'loc' with the lines it starts and ends at; the content of a state      *)
(* variable, a member or a statement is its list 'arguments'.              *)
(***************************************************************************)

Loc(s, e) == [start |-> [line |-> s], end |-> [line |-> e]]

\* Mutant of remove_loc_info: the key 'loc' is kept
remove_loc_info_kept(d) == d

\* remove_loc_info(d): the dict without its key 'loc'.  The values that
\* are left (a string, a list of strings) hold no further dict and are
\* returned as they are
remove_loc_info(d) == [k \in (DOMAIN d) \ {"loc"} |-> d[k]]

\* get_attr(get_attr(subNode, 'body'), 'statements'): None, tested like an
\* empty list, when the function has no body
statements_of(subNode) ==
    IF "body" \in DOMAIN subNode THEN subNode.body.statements ELSE <<>>

\* the result of a search that raises Exception('AST-Node not found')
NodeNotFound ==
    [found |-> FALSE, node |-> [type |-> "", arguments |-> <<>>],
     path |-> <<>>]

\* The first node of a list that starts at the line: its position, or 0
FirstAtLine(nodes, line) ==
    IF \E i \in 1..Len(nodes) : nodes[i].loc.start.line = line
    THEN CHOOSE i \in 1..Len(nodes) :
            /\ nodes[i].loc.start.line = line
            /\ \A j \in 1..(i - 1) : nodes[j].loc.start.line # line
    ELSE 0

\* Lines 27-41: the search in one subNode of a contract; node_path is the
\* path built so far
search_subNode(subNode, line, node_path) ==
    IF subNode.type \in {"StateVariableDeclaration", "UsingForDeclaration",
                         "EventDefinition"}
    THEN IF subNode.loc.start.line = line
         THEN [found |-> TRUE, node |-> remove_loc_info(subNode),
               path |-> node_path]
         ELSE NodeNotFound
    ELSE IF subNode.type \in {"StructDefinition", "EnumDefinition"}
    THEN LET m == FirstAtLine(subNode.members, line)
         IN  IF m # 0
             THEN [found |-> TRUE,
                   node |-> remove_loc_info(subNode.members[m]),
                   path |-> node_path \o <<"member", "[*]">>]
             ELSE NodeNotFound
    ELSE IF subNode.type \in {"FunctionDefinition", "ModifierDefinition"}
    THEN LET s == FirstAtLine(statements_of(subNode), line)
         IN  IF s # 0
             THEN [found |-> TRUE,
                   node |-> remove_loc_info(statements_of(subNode)[s]),
                   path |-> node_path \o <<"body", "statements", "[*]">>]
             ELSE NodeNotFound
    ELSE NodeNotFound

\* Lines 26-41: the subNodes of a contract from position j on
RECURSIVE search_subNodes(_, _, _, _)
search_subNodes(subNodes, j, line, node_path) ==
    IF j > Len(subNodes) THEN NodeNotFound
    ELSE LET hit == search_subNode(subNodes[j], line, node_path)
         IN  IF hit.found THEN hit
             ELSE search_subNodes(subNodes, j + 1, line, node_path)

\* Lines 23-42: the children from position c on; every contract visited
\* extends node_path by 'subNodes', '[*]'
RECURSIVE search_children(_, _, _, _)
search_children(children, c, line, node_path) ==
    IF c > Len(children) THEN NodeNotFound
    ELSE IF children[c].type = "ContractDefinition"
    THEN LET extended == node_path \o <<"subNodes", "[*]">>
             hit == search_subNodes(children[c].subNodes, 1, line, extended)
         IN  IF hit.found THEN hit
             ELSE search_children(children, c + 1, line, extended)
    ELSE search_children(children, c + 1, line, node_path)

\* get_node_and_node_path(node, line)
get_node_and_node_path(node, line) ==
    search_children(node.children, 1, line, <<"children", "[*]">>)


\* get_function_name(node, line): the name of the first function whose
\* lines hold the line, in a child whose lines hold it; 'unknown' otherwise
get_function_name(node, line) ==
    LET holds(n) == line >= n.loc.start.line /\ line <= n.loc.end.line
        subNodes_of(child) ==
            IF "subNodes" \in DOMAIN child THEN child.subNodes ELSE <<>>
        hits == UNION {{<<c, j>> : j \in {i \in 1..Len(subNodes_of(node.children[c])) :
                                    /\ holds(node.children[c])
                                    /\ subNodes_of(node.children[c])[i].type
                                           = "FunctionDefinition"
                                    /\ holds(subNodes_of(node.children[c])[i])}}
                       : c \in 1..Len(node.children)}
    IN  IF hits = {} THEN <<"unknown">>
        ELSE LET first == CHOOSE h \in hits : \A g \in hits :
                              \/ h[1] < g[1]
                              \/ h[1] = g[1] /\ h[2] <= g[2]
             IN  node.children[first[1]].subNodes[first[2]].name

\* Vulnerability.line_num: tuple(int(y) for y in x.split(':'))
line_num_converter(x) ==
    [i \in 1..Len(str_split(x, ":")) |-> py_int(str_split(x, ":")[i])]

\* get_vuln_object(vuln_name, contract_file_path, contract_name, line_num,
\* ast), line_num a string of digits: None when the line is not located
get_vuln_object(vuln_name, contract_file_path, contract_name, line_num, ast) ==
    LET function_name == get_function_name(ast, py_int(line_num))
        located == get_node_and_node_path(ast, py_int(line_num))
    IN  IF ~located.found THEN NoVulnerability
        ELSE [vuln_name |-> vuln_name,
              contract_file_path |-> contract_file_path,
              contract_name |-> contract_name,
              function_name |-> function_name,
              line_num |-> line_num_converter(line_num),
              ast_node_path |-> JoinTokens(located.path, "."),
              ast_node |-> located.node]

\* The syntax tree of contracts/Token.sol: a pragma, the contract Token with
\* a state variable, a struct, two functions (one without a body), and the
\* contract Wallet with one function, whose second statement is an if
\* statement of three lines
Statement(line, arguments) ==
    [type |-> "ExpressionStatement", loc |-> Loc(line, line),
     arguments |-> arguments]

TOKEN_AST ==
    [children |-> <<
        [type |-> "PragmaDirective", name |-> <<"solidity">>,
         loc |-> Loc(1, 1)],
        [type |-> "ContractDefinition", name |-> <<"Token">>,
         loc |-> Loc(2, 12),
         subNodes |-> <<
            [type |-> "StateVariableDeclaration", loc |-> Loc(3, 3),
             arguments |-> <<"c">>],
            [type |-> "StructDefinition", name |-> <<"Account">>,
             loc |-> Loc(4, 6),
             members |-> <<[type |-> "VariableDeclaration",
                            loc |-> Loc(5, 5), arguments |-> <<"a">>]>>],
            [type |-> "FunctionDefinition", name |-> <<"withdraw">>,
             loc |-> Loc(7, 10),
             body |-> [statements |->
                          <<Statement(8, <<"a", "b">>),
                            Statement(9, <<"c">>)>>]],
            [type |-> "FunctionDefinition", name |-> <<"deposit">>,
             loc |-> Loc(11, 11)]>>],
        [type |-> "ContractDefinition", name |-> <<"Wallet">>,
         loc |-> Loc(13, 20),
         subNodes |-> <<
            [type |-> "FunctionDefinition", name |-> <<"pay">>,
             loc |-> Loc(14, 19),
             body |-> [statements |->
                          <<Statement(15, <<"a", "b">>),
                            [type |-> "IfStatement", loc |-> Loc(16, 18),
                             arguments |-> <<"c", "a">>]>>]]>>]>>]

\* The last line of TOKEN_AST
LastLine == 20

\* The same file after n unrelated lines (blank lines, comments) were
\* inserted below line at: every position below moves down by n
shifted_line(l, at, n) == IF l > at THEN l + n ELSE l

shifted_loc(d, at, n) ==
    [d EXCEPT !.loc = Loc(shifted_line(d.loc.start.line, at, n),
                          shifted_line(d.loc.end.line, at, n))]

shifted_list(nodes, at, n) ==
    [i \in 1..Len(nodes) |-> shifted_loc(nodes[i], at, n)]

shifted_subNode(d, at, n) ==
    IF "body" \in DOMAIN d
    THEN [shifted_loc(d, at, n) EXCEPT
             !.body = [statements |-> shifted_list(d.body.statements, at, n)]]
    ELSE IF "members" \in DOMAIN d
    THEN [shifted_loc(d, at, n) EXCEPT
             !.members = shifted_list(d.members, at, n)]
    ELSE shifted_loc(d, at, n)

shifted_child(d, at, n) ==
    IF "subNodes" \in DOMAIN d
    THEN [shifted_loc(d, at, n) EXCEPT
             !.subNodes = [j \in 1..Len(d.subNodes) |->
                              shifted_subNode(d.subNodes[j], at, n)]]
    ELSE shifted_loc(d, at, n)

shifted_ast(ast, at, n) ==
    [children |-> [c \in 1..Len(ast.children) |->
                      shifted_child(ast.children[c], at, n)]]

\* At most MaxShift lines are inserted
MaxShift == 2

VARIABLES
    lc_line,        \* the line a detector reports in the file
    lc_at,          \* lines are inserted below this line, and
    lc_shift,       \* this many of them
    lc_first,       \* the finding built for lc_line from the tree
    lc_second,      \* the finding built for the moved line from the tree
                    \* of the file with the lines inserted
    lc_pc           \* "start", "first", "second"

varsLocate == <<lc_line, lc_at, lc_shift, lc_first, lc_second, lc_pc>>

IdleLocate ==
    /\ lc_line = 0
    /\ lc_at = 0
    /\ lc_shift = 0
    /\ lc_first = NoVulnerability
    /\ lc_second = NoVulnerability
    /\ lc_pc = "idle"

InitLocate ==
    /\ lc_line \in 0..(LastLine + 1)
    /\ lc_at \in 0..LastLine
    /\ lc_shift \in 1..MaxShift
    /\ lc_first = NoVulnerability
    /\ lc_second = NoVulnerability
    /\ lc_pc = "start"

(***************************************************************************)
(* Running a detector and parsing what it prints (detector_slither.py,     *)
(* detector_oyente.py)                                                     *)
(***************************************************************************)

\* The file under analysis and a file it imports
SOL_FILE == abs_path(REPO_PATH, TOKEN_SOL)
IMPORTED_FILE == abs_path(REPO_PATH, WALLET_SOL)

\* The elements of a Slither detector entry: a function or a node, with the
\* file and the lines it was found at
ELEMENT_FUNCTION ==
    [type |-> "function", name |-> <<"withdraw">>, parent |-> <<"Token">>,
     lines |-> <<7>>, filename_used |-> SOL_FILE]
ELEMENT_NODE ==
    [type |-> "node", name |-> <<>>, parent |-> <<>>,
     lines |-> <<8, 9>>, filename_used |-> SOL_FILE]
\* a node at a line where no declaration, member or statement starts
ELEMENT_NODE_UNLOCATED ==
    [type |-> "node", name |-> <<>>, parent |-> <<>>,
     lines |-> <<2>>, filename_used |-> SOL_FILE]
ELEMENT_FUNCTION_IMPORTED ==
    [type |-> "function", name |-> <<"pay">>, parent |-> <<"Wallet">>,
     lines |-> <<14>>, filename_used |-> IMPORTED_FILE]
ELEMENT_NODE_IMPORTED ==
    [type |-> "node", name |-> <<>>, parent |-> <<>>,
     lines |-> <<15>>, filename_used |-> IMPORTED_FILE]

Elements ==
    {ELEMENT_FUNCTION, ELEMENT_NODE, ELEMENT_NODE_UNLOCATED,
     ELEMENT_FUNCTION_IMPORTED, ELEMENT_NODE_IMPORTED}

\* A detector entry lists at most MaxElements elements
MaxElements == 2

SlitherDetectors ==
    [check : {<<"reentrancy-eth">>}, elements : SeqsUpTo(Elements, MaxElements)]

\* What Oyente prints for a line: 'file:line:column'
oyente_line(line) == <<"Token.sol", ":">> \o str_int(line) \o <<":", "1">>

\* The entries of Oyente's output: the file, the contract, the name of the
\* check and the lines printed for it
OyenteEntries(path) ==
    [path : {path}, c_name : {<<"Token">>}, v_name : {<<"callstack">>},
     vulns : SeqsUpTo({oyente_line(8), oyente_line(2), oyente_line(15)},
                      MaxElements)]

\* What the process of a tool does: it cannot be started, it never exits,
\* or it exits with a return code and a standard output.  The output is not
\* JSON, or it is a JSON document: for Slither with a 'success' flag (true,
\* false or absent) and detector entries, for Oyente with entries by file.
NoDocument ==
    [valid |-> FALSE, success |-> "absent", detectors |-> <<>>,
     entries |-> <<>>]

SlitherDocuments ==
    [valid : {TRUE}, success : {"false", "absent"}, detectors : {<<>>},
     entries : {<<>>}]
    \cup [valid : {TRUE}, success : {"true"},
          detectors : {<<>>} \cup {<<d>> : d \in SlitherDetectors}
                        \cup {<<d, e>> : d \in SlitherDetectors,
                                         e \in SlitherDetectors},
          entries : {<<>>}]

OyenteDocuments ==
    [valid : {TRUE}, success : {"absent"}, detectors : {<<>>},
     entries : {<<>>} \cup {<<x>> : x \in OyenteEntries(SOL_FILE)}
                 \cup {<<x, y>> : x \in OyenteEntries(IMPORTED_FILE),
                                  y \in OyenteEntries(SOL_FILE)}
                 \cup {<<x, y>> : x \in OyenteEntries(SOL_FILE),
                                  y \in OyenteEntries(IMPORTED_FILE)}]

ProcessOutcomes(documents) ==
    [status : {"not started", "never exits"}, returncode : {0},
     stdout : {NoDocument}]
    \cup [status : {"exited"}, returncode : {0, 1},
          stdout : {NoDocument} \cup documents]

\* The sentinel 'null' and a parsed document, as an execute function
\* returns them
NullOutput == [null |-> TRUE, out_json |-> NoDocument]

\* execute_slither: 'null' when the process cannot be started (subprocess.run
\* raises), when json.loads raises, when out_json['success'] raises or is
\* false; the document otherwise.  proc.returncode is not read.
execute_slither(proc) ==
    IF proc.status # "exited" THEN NullOutput
    ELSE IF ~proc.stdout.valid THEN NullOutput
    ELSE IF proc.stdout.success # "true" THEN NullOutput
    ELSE [null |-> FALSE, out_json |-> proc.stdout]

\* execute_oyente: 'null' when the process cannot be started or json.loads
\* raises; the document otherwise.  proc.returncode is not read.
execute_oyente(proc) ==
    IF proc.status # "exited" THEN NullOutput
    ELSE IF ~proc.stdout.valid THEN NullOutput
    ELSE [null |-> FALSE, out_json |-> proc.stdout]

\* Mutant of read_elements: an element of another file does not mark the
\* entry (lines 61-63 left out)
RECURSIVE read_elements_any_file(_, _, _, _)
read_elements_any_file(elements, e, sol_file, st) ==
    IF e > Len(elements) THEN st
    ELSE LET element == elements[e]
             read ==
                 IF element.type = "function"
                 THEN [st EXCEPT !.bound = TRUE,
                                 !.function_name = element.name,
                                 !.contract_name = element.parent]
                 ELSE IF element.type = "node"
                 THEN [st EXCEPT !.lines = st.lines \o element.lines]
                 ELSE st
         IN  read_elements_any_file(elements, e + 1, sol_file, read)

\* Lines 54-63 from the e-th element on.  st holds function_name and
\* contract_name (bound once a function element was read), lines and
\* isImported
RECURSIVE read_elements(_, _, _, _)
read_elements(elements, e, sol_file, st) ==
    IF e > Len(elements) THEN st
    ELSE LET element == elements[e]
             read ==
                 IF element.type = "function"
                 THEN [st EXCEPT !.bound = TRUE,
                                 !.function_name = element.name,
                                 !.contract_name = element.parent]
                 ELSE IF element.type = "node"
                 THEN [st EXCEPT !.lines = st.lines \o element.lines]
                 ELSE st
         IN  IF element.filename_used # sol_file
             THEN [read EXCEPT !.isImported = TRUE]
             ELSE read_elements(elements, e + 1, sol_file, read)

\* line_num of line 67: ':'.join(str(l) for l in lines)
lines_text(lines) ==
    str_join([i \in 1..Len(lines) |-> str_int(lines[i])], ":")

\* Lines 48-75 from the d-th detector entry on.  acc holds the findings, the
\* position of the entry each was built from, the names left by the
\* entries read so far, and whether line 74 raised (UnboundLocalError: no
\* function element was read before a finding is built)
RECURSIVE detector_entries(_, _, _, _, _)
detector_entries(detectors, d, ast, sol_file, acc) ==
    IF d > Len(detectors) \/ acc.raised THEN acc
    ELSE IF detectors[d].elements = <<>>
    THEN detector_entries(detectors, d + 1, ast, sol_file, acc)
    ELSE LET st == read_elements(detectors[d].elements, 1, sol_file,
                       [bound |-> acc.bound,
                        function_name |-> acc.function_name,
                        contract_name |-> acc.contract_name,
                        lines |-> <<>>, isImported |-> FALSE])
             names == [acc EXCEPT !.bound = st.bound,
                                  !.function_name = st.function_name,
                                  !.contract_name = st.contract_name]
         IN  IF st.lines = <<>> \/ st.isImported
             THEN detector_entries(detectors, d + 1, ast, sol_file, names)
             ELSE LET located == get_node_and_node_path(ast, st.lines[1])
                  IN  IF ~located.found
                      THEN detector_entries(detectors, d + 1, ast, sol_file,
                                            names)
                      ELSE IF ~st.bound
                      THEN [names EXCEPT !.raised = TRUE]
                      ELSE detector_entries(detectors, d + 1, ast, sol_file,
                               [names EXCEPT
                                   !.vulns = Append(@,
                                       [vuln_name |-> detectors[d].check,
                                        contract_file_path |-> sol_file,
                                        contract_name |-> st.contract_name,
                                        function_name |-> st.function_name,
                                        line_num |-> line_num_converter(
                                                        lines_text(st.lines)),
                                        ast_node_path |->
                                            JoinTokens(located.path, "."),
                                        ast_node |-> located.node]),
                                   !.from = Append(@, d)])

NoFindings ==
    [raised |-> FALSE, vulns |-> <<>>, from |-> <<>>, bound |-> FALSE,
     function_name |-> <<>>, contract_name |-> <<>>]

\* parse_slither_output(out_json, ast, sol_file), entry by entry
parse_slither_detectors(out_json, ast, sol_file) ==
    detector_entries(out_json.detectors, 1, ast, sol_file, NoFindings)

\* Lines 98-111: the findings of the lines printed for one check
oyente_lines(entry, ast) ==
    [i \in 1..Len(entry.vulns) |->
        get_vuln_object(entry.v_name, entry.path, entry.c_name,
                        str_split(entry.vulns[i], ":")[2], ast)]

\* Lines 92-112 from the f-th file entry on
RECURSIVE file_entries(_, _, _, _, _)
file_entries(entries, f, ast, sol_file, acc) ==
    IF f > Len(entries) THEN acc
    ELSE IF entries[f].path # sol_file
    THEN file_entries(entries, f + 1, ast, sol_file, acc)
    ELSE file_entries(entries, f + 1, ast, sol_file,
             [acc EXCEPT
                 !.vulns = @ \o oyente_lines(entries[f], ast),
                 !.from = @ \o [i \in 1..Len(entries[f].vulns) |-> f]])

\* parse_oyente_output(out_json, ast, sol_file), file by file
parse_oyente_files(out_json, ast, sol_file) ==
    file_entries(out_json.entries, 1, ast, sol_file, NoFindings)

VARIABLES
    ad_tool,        \* "slither" or "oyente"
    ad_proc,        \* what the process of the tool does
    ad_out,         \* what the execute function returned
    ad_parsed,      \* what the parse function returned
    ad_pc           \* "start", "running" (inside subprocess.run),
                    \* "executed", "parsed", "skipped" (no parse step),
                    \* "raised" (the parse function raised)

varsAdapter == <<ad_tool, ad_proc, ad_out, ad_parsed, ad_pc>>

IdleAdapter ==
    /\ ad_tool = "none"
    /\ ad_proc = [status |-> "not started", returncode |-> 0,
                  stdout |-> NoDocument]
    /\ ad_out = NullOutput
    /\ ad_parsed = NoFindings
    /\ ad_pc = "idle"

InitAdapter ==
    /\ ad_tool \in {"slither", "oyente"}
    /\ ad_proc \in ProcessOutcomes(IF ad_tool = "slither" THEN SlitherDocuments
                                   ELSE OyenteDocuments)
    /\ ad_out = NullOutput
    /\ ad_parsed = NoFindings
    /\ ad_pc = "start"

(***************************************************************************)
(* HTTP requests of the walks (http_methods.py, patches.py)                *)
(***************************************************************************)

\* The commits of the walk whose metadata may be fetched
NumFetchCommits == 3

\* Attempts of one call of make_request are counted up to MaxAttempts
MaxAttempts == 4

\* randint(2, 4)
WaitTimes == 2..4

\* How an attempt that does not give status 200 ends: another status code,
\* or an exception of requests.get (no connection, the timeout of 10 s)
Failures == {"status", "exception"}

\* The sleep before the retry: 30 s after a status code, 20 s after an
\* exception
retry_sleep(failure) == IF failure = "status" THEN 30 ELSE 20

VARIABLES
    ft_i,           \* the position of the commit of the pass
    ft_attempts,    \* the attempts the call of make_request in progress has
                    \* made (MaxAttempts stands for MaxAttempts or more)
    ft_slept,       \* the seconds slept for the last attempt
    ft_answers,     \* what get_prid_mergestatus returned, commit by commit
    ft_pc           \* "loop", "request" (inside make_request), "done"

varsFetch == <<ft_i, ft_attempts, ft_slept, ft_answers, ft_pc>>

IdleFetch ==
    /\ ft_i = 0
    /\ ft_attempts = 0
    /\ ft_slept = 0
    /\ ft_answers = <<>>
    /\ ft_pc = "idle"

InitFetch ==
    /\ ft_i = 1
    /\ ft_attempts = 0
    /\ ft_slept = 0
    /\ ft_answers = <<>>
    /\ ft_pc = "loop"


(***************************************************************************)
(* Repository workers sharing the collection: contracts.py 76-109, 241-278 *)
(***************************************************************************)

\* fetch_contracts hands each repository to a process of the pool (lines
\* 271-276); the processes share the one database connected at line 252
NumWorkers == 2
Workers == 1..NumWorkers

\* The addresses one worker looks up, in order
MaxLookups == 2
WorkerLookups == SeqsUpTo(Addresses, MaxLookups) \ {<<>>}

\* NotUniqueError: what save() raises for a second document with a
\* deployment_address already in the collection (unique=True, objects.py 173)
NotUniqueError == <<"NotUniqueError">>

VARIABLES
    rc_store,       \* the shared collection, by address
    rc_todo,        \* per worker: the addresses still to look up
    rc_obj,         \* per worker: the document built from the page fetched
    rc_returned,    \* per worker: the documents its lookups have returned
    rc_raised,      \* per worker: the exception that ended it, or None
    rc_pc           \* per worker: where it is in the lookup

varsRace == <<rc_store, rc_todo, rc_obj, rc_returned, rc_raised, rc_pc>>

IdleRace ==
    /\ rc_store = [a \in Addresses |-> NoRecord]
    /\ rc_todo = [w \in Workers |-> <<>>]
    /\ rc_obj = [w \in Workers |-> NoRecord]
    /\ rc_returned = [w \in Workers |-> <<>>]
    /\ rc_raised = [w \in Workers |-> None]
    /\ rc_pc = [w \in Workers |-> "idle"]

InitRace ==
    /\ rc_store = [a \in Addresses |-> NoRecord]
    /\ rc_todo \in [Workers -> WorkerLookups]
    /\ rc_obj = [w \in Workers |-> NoRecord]
    /\ rc_returned = [w \in Workers |-> <<>>]
    /\ rc_raised = [w \in Workers |-> None]
    /\ rc_pc = [w \in Workers |-> "get"]


(***************************************************************************)
(* get_vulnerabilities on a list of files: patches.py 195-229              *)
(***************************************************************************)

VARIABLES
    gv_inputs,      \* per file of the list: what happens to it
    gv_vulns,       \* the findings returned and the tools that were run
    gv_pc           \* "start", "returned"

varsVulns == <<gv_inputs, gv_vulns, gv_pc>>

NoVulns == [slither |-> <<>>, oyente |-> <<>>, tools |-> <<>>]

IdleVulns ==
    /\ gv_inputs = <<>>
    /\ gv_vulns = NoVulns
    /\ gv_pc = "idle"

InitVulns ==
    /\ gv_inputs \in [1..Len(current_sol_files) -> FileInputs]
    /\ gv_vulns = NoVulns
    /\ gv_pc = "start"

VARIABLES
    tr_bytecode,    \* the bytecode handed to trim_bytecode
    tr_version,     \* the compiler version handed to trim_bytecode
    tr_once,        \* trim_bytecode(tr_bytecode, tr_version)
    tr_twice,       \* trim_bytecode(tr_once, tr_version)
    tr_pc           \* "start", "once" (trimmed), "twice" (trimmed again)

varsTrim == <<tr_bytecode, tr_version, tr_once, tr_twice, tr_pc>>

vars ==
    <<varsTrim, varsHash, varsVerify, varsContract, varsRepo, varsLocate,
      varsAdapter,
      varsFetch,
      varsRace,
      varsVulns>>

othersTrim == <<varsHash, varsVerify, varsContract, varsRepo, varsLocate,
      varsAdapter,
      varsFetch,
      varsRace,
      varsVulns>>
othersHash == <<varsTrim, varsVerify, varsContract, varsRepo, varsLocate,
      varsAdapter,
      varsFetch,
      varsRace,
      varsVulns>>
othersVerify == <<varsTrim, varsHash, varsContract, varsRepo, varsLocate,
      varsAdapter,
      varsFetch,
      varsRace,
      varsVulns>>
othersContract ==
    <<varsTrim, varsHash, va_addresses, va_i, va_log, va_calls, va_result, va_pc,
      varsRepo, varsLocate,
      varsAdapter,
      varsFetch,
      varsRace,
      varsVulns>>
othersRepo == <<varsTrim, varsHash, varsVerify, varsContract, varsLocate,
      varsAdapter,
      varsFetch,
      varsRace,
      varsVulns>>
othersLocate == <<varsTrim, varsHash, varsVerify, varsContract, varsRepo,
      varsAdapter,
      varsFetch,
      varsRace,
      varsVulns>>
othersAdapter ==
    <<varsTrim, varsHash, varsVerify, varsContract, varsRepo, varsLocate,
      varsFetch,
      varsRace,
      varsVulns>>
othersFetch ==
    <<varsTrim, varsHash, varsVerify, varsContract, varsRepo, varsLocate, varsAdapter,
      varsRace,
      varsVulns>>
othersRace ==
    <<varsTrim, varsHash, varsVerify, varsContract, varsRepo, varsLocate, varsAdapter, varsFetch,
      varsVulns>>
othersVulns ==
    <<varsTrim, varsHash, varsVerify, varsContract, varsRepo, varsLocate, varsAdapter, varsFetch, varsRace>>

IdleTrim ==
    /\ tr_bytecode = <<>>
    /\ tr_version = <<0, 0, 0>>
    /\ tr_once = <<>>
    /\ tr_twice = <<>>
    /\ tr_pc = "idle"

InitTrim ==
    /\ tr_bytecode \in Bytecodes
    /\ tr_version \in Versions
    /\ tr_once = <<>>
    /\ tr_twice = <<>>
    /\ tr_pc = "start"

\* bytecode = trim_bytecode(bytecode, compiler_version)
Trim ==
    /\ tr_pc = "start"
    /\ tr_once' = trim_bytecode(tr_bytecode, tr_version)
    /\ tr_pc' = "once"
    /\ UNCHANGED <<tr_bytecode, tr_version, tr_twice>>
    /\ UNCHANGED othersTrim

\* the result trimmed a second time with the same version
TrimAgain ==
    /\ tr_pc = "once"
    /\ tr_twice' = trim_bytecode(tr_once, tr_version)
    /\ tr_pc' = "twice"
    /\ UNCHANGED <<tr_bytecode, tr_version, tr_once>>
    /\ UNCHANGED othersTrim

NextTrim == Trim \/ TrimAgain

StartTrim == InitTrim /\ IdleHash /\ IdleVerify /\ IdleContract /\ IdleRepo
    /\ IdleLocate
    /\ IdleAdapter
    /\ IdleFetch
    /\ IdleRace
    /\ IdleVulns

SpecTrim == StartTrim /\ [][NextTrim]_vars

(***************************************************************************)
(* Claims about trim_bytecode                                              *)
(***************************************************************************)

\* The version as one number, for stating the bands independently of the
\* comparison the model uses (minor and patch numbers stay below 100)
VersionNumber(v) == v[1] * 10000 + v[2] * 100 + v[3]

Occurs(s, sub) == \E i \in 0..Len(s) : OccursAt(s, sub, i)

\* The 0-based position of the rightmost occurrence of sub in s
LastOccurrence(s, sub) ==
    CHOOSE i \in 0..Len(s) :
        OccursAt(s, sub, i) /\ \A j \in (i + 1)..Len(s) : ~OccursAt(s, sub, j)

\* r is the characters of s at the 0-based positions from, ..., to - 1
IsSubstringBetween(r, s, from, to) ==
    /\ Len(r) = (IF to > from THEN to - from ELSE 0)
    /\ \A k \in 1..Len(r) : r[k] = s[from + k]

\* C3 (as claimed): for every bytecode and every version >= 0.4.7, trimming
\* the trimmed bytecode again with the same version gives the same string.
C3_TrimIdempotent ==
    (tr_pc = "twice" /\ VersionNumber(tr_version) >= 407)
        => tr_twice = tr_once

\* C4: for a version >= 0.4.22 whose prologue 6080604052 and trailer both
\* occur in the bytecode, the result is the substring from the rightmost
\* prologue (inclusive) to the rightmost trailer (exclusive); for a version
\* >= 0.4.7 and < 0.4.22 whose prologue 6060604052 occurs, it is the
\* substring from the rightmost prologue to the end of the string.
C4_TrimResult ==
    tr_pc # "start" =>
        LET n == VersionNumber(tr_version)
            trailer == IF n >= 600 THEN TRAILER_A264 ELSE TRAILER_A165
        IN  /\ (n >= 422 /\ Occurs(tr_bytecode, PROLOGUE_6080)
                          /\ Occurs(tr_bytecode, trailer))
                => IsSubstringBetween(tr_once, tr_bytecode,
                       LastOccurrence(tr_bytecode, PROLOGUE_6080),
                       LastOccurrence(tr_bytecode, trailer))
            /\ (n >= 407 /\ n < 422 /\ Occurs(tr_bytecode, PROLOGUE_6060))
                => IsSubstringBetween(tr_once, tr_bytecode,
                       LastOccurrence(tr_bytecode, PROLOGUE_6060),
                       Len(tr_bytecode))

\* C4 witness: version 0.6.0, two prologues before the trailer, metadata
\* after it: the result starts at the second prologue and is not empty.
C4_Witness ==
    /\ tr_pc = "once"
    /\ tr_version = <<0, 6, 0>>
    /\ tr_bytecode = PROLOGUE_6080 \o PROLOGUE_6080 \o TRAILER_A264
    /\ tr_once = PROLOGUE_6080

\* C5: a version >= 0.6.0 is trimmed with prologue 6080604052 and trailer
\* a264697066735822, a version >= 0.4.22 and < 0.6.0 with prologue
\* 6080604052 and trailer a165627a7a72305820, a version >= 0.4.7 and
\* < 0.4.22 with prologue 6060604052 to the end of the string, and a version
\* below 0.4.7 is returned unchanged.
C5_TrimBands ==
    tr_pc # "start" =>
        LET n == VersionNumber(tr_version)
            b == tr_bytecode
        IN  /\ n >= 600 =>
                tr_once = PySlice(b, str_rfind(b, PROLOGUE_6080),
                                     str_rfind(b, TRAILER_A264))
            /\ (n >= 422 /\ n < 600) =>
                tr_once = PySlice(b, str_rfind(b, PROLOGUE_6080),
                                     str_rfind(b, TRAILER_A165))
            /\ (n >= 407 /\ n < 422) =>
                tr_once = PySliceFrom(b, str_rfind(b, PROLOGUE_6060))
            /\ n < 407 => tr_once = b

\* C5 witness: at the boundary version 0.6.0 a bytecode holding both
\* trailers is cut at the a264697066735822 one.
C5_Witness ==
    /\ tr_pc = "once"
    /\ tr_version = <<0, 6, 0>>
    /\ tr_bytecode = PROLOGUE_6080 \o TRAILER_A165 \o TRAILER_A264
    /\ tr_once = PROLOGUE_6080 \o TRAILER_A165

(***************************************************************************)
(* Comparing and hashing two findings                                      *)
(***************************************************************************)

\* a == b, hash(a), hash(b)
CompareAndHash ==
    /\ vh_pc = "start"
    /\ vh_eq' = Vulnerability_eq(vh_a, vh_b)
    /\ vh_hash_a' = Vulnerability_hash(vh_a)
    /\ vh_hash_b' = Vulnerability_hash(vh_b)
    /\ vh_pc' = "done"
    /\ UNCHANGED <<vh_a, vh_b>>
    /\ UNCHANGED othersHash

NextHash == CompareAndHash

StartHash == InitHash /\ IdleTrim /\ IdleVerify /\ IdleContract /\ IdleRepo
    /\ IdleLocate
    /\ IdleAdapter
    /\ IdleFetch
    /\ IdleRace
    /\ IdleVulns

SpecHash == StartHash /\ [][NextHash]_vars

\* C2 (as claimed): two findings that are equal have the same hash; stated
\* here for the case the claim singles out, canonical subtrees whose lists
\* have the same number of items (so they differ at most in their order).
C2_HashConsistent ==
    (/\ vh_pc = "done"
     /\ vh_eq
     /\ Len(vh_a.ast_node.arguments) = Len(vh_b.ast_node.arguments))
        => vh_hash_a = vh_hash_b

(***************************************************************************)
(* verify_contract_deployment_address                                      *)
(***************************************************************************)

\* One pass of the loop of lines 140-148 for the next candidate: the
\* document is loaded or fetched, the file compiled with the document's
\* version and flags, the bytecodes compared.
VerifyCandidate ==
    /\ va_pc = "loop"
    /\ va_i <= Len(va_addresses)
    /\ \E page \in EtherscanPages, outcome \in CompilerOutcomes :
        LET deployment_address == va_addresses[va_i]
            got == get_contract_details_from_etherscan(store,
                       deployment_address, page)
            obj == got.obj
            bytecode == complie_solc(outcome, obj.compiler_version)
            pc == verify_next_pc(bytecode, obj)
        IN  /\ store' = got.store
            /\ va_log' = Append(va_log,
                   [address |-> deployment_address, obj |-> obj,
                    fetched |-> got.fetched, outcome |-> outcome])
            /\ va_calls' = Append(va_calls,
                   [candidate |-> va_i,
                    contract_name |-> obj.contract_name,
                    compiler_version |-> obj.compiler_version,
                    solc_args |-> solc_args_of(obj)])
            /\ va_pc' = pc
            /\ va_result' = IF pc = "returned"
                            THEN <<deployment_address, obj.compiler_version>>
                            ELSE va_result
            /\ va_i' = va_i + 1
    /\ UNCHANGED va_addresses
    /\ UNCHANGED othersVerify

\* The page of an address that is not stored cannot be taken apart (lines
\* 91-97 raise): nothing catches it, the call ends with the exception
VerifyFetchRaises ==
    /\ va_pc = "loop"
    /\ va_i <= Len(va_addresses)
    /\ store[va_addresses[va_i]] = NoRecord
    /\ va_pc' = "fetch raised"
    /\ UNCHANGED <<store, va_addresses, va_i, va_log, va_calls, va_result>>
    /\ UNCHANGED othersVerify

\* Line 149: the candidates are used up
VerifyNoMatch ==
    /\ va_pc = "loop"
    /\ va_i > Len(va_addresses)
    /\ va_result' = <<None, None>>
    /\ va_pc' = "returned"
    /\ UNCHANGED <<store, va_addresses, va_i, va_log, va_calls>>
    /\ UNCHANGED othersVerify

NextVerify == VerifyCandidate \/ VerifyFetchRaises \/ VerifyNoMatch

StartVerify == InitVerify /\ IdleTrim /\ IdleHash /\ IdleContract /\ IdleRepo
    /\ IdleLocate
    /\ IdleAdapter
    /\ IdleFetch
    /\ IdleRace
    /\ IdleVulns

SpecVerify == StartVerify /\ [][NextVerify]_vars

\* A candidate examined matches: the file compiled, and its bytecode trimmed
\* for the document's version is the document's trimmed on-chain bytecode
CandidateMatches(entry) ==
    /\ entry.outcome # InvalidCompilation
    /\ trim_bytecode(entry.outcome, entry.obj.compiler_version)
           = entry.obj.blockchain_bytecode

\* C6: when verify_contract_deployment_address returns, no candidate before
\* the last one examined matches; it returns the last one examined with its
\* document's compiler version if that one matches, and (None, None) only
\* after examining every candidate without a match.
C6_FirstMatchReturned ==
    va_pc = "returned" =>
        LET n == Len(va_log)
        IN  /\ \A k \in 1..n : va_log[k].address = va_addresses[k]
            /\ \A k \in 1..(n - 1) : ~CandidateMatches(va_log[k])
            /\ IF n > 0 /\ CandidateMatches(va_log[n])
               THEN va_result = <<va_addresses[n],
                                  va_log[n].obj.compiler_version>>
               ELSE va_result = <<None, None>> /\ n = Len(va_addresses)

\* C6 witness: the first candidate does not match, the second is returned
\* although the compiler's bytecode carries other metadata than the chain's
C6_Witness ==
    /\ va_pc = "returned"
    /\ Len(va_log) = 2
    /\ va_result = <<va_addresses[2], va_log[2].obj.compiler_version>>
    /\ va_addresses[1] # va_addresses[2]
    /\ va_log[2].outcome = RAW_1_OTHER_METADATA

\* C7: the compiler is invoked once for each candidate up to and including
\* the first matching one, in order, and for no candidate after it.
C7_CompilerInvocations ==
    /\ \A k \in 1..Len(va_calls) : va_calls[k].candidate = k
    /\ Len(va_calls) = Len(va_log)
    /\ \A k \in 1..(Len(va_log) - 1) : ~CandidateMatches(va_log[k])
    /\ va_pc = "returned" =>
           \/ Len(va_calls) = Len(va_addresses)
           \/ /\ Len(va_calls) > 0
              /\ CandidateMatches(va_log[Len(va_calls)])

\* C7 witness: two candidates, the first mismatches and the second matches,
\* two compiler invocations
C7_Witness ==
    /\ va_pc = "returned"
    /\ Len(va_addresses) = 2
    /\ ~CandidateMatches(va_log[1])
    /\ va_result[1] = va_addresses[2]
    /\ Len(va_calls) = 2

\* C8: a candidate for which the compiler raised InvalidCompilation is not
\* the address returned, and the search does not end with it unless it is
\* the last candidate: the call never ends with the exception.
C8_CompilerFailureSkipped ==
    /\ va_pc # "raised"
    /\ \A k \in 1..Len(va_log) :
        va_log[k].outcome = InvalidCompilation =>
            /\ va_result[1] = None \/ k < Len(va_log)
            /\ (va_pc = "loop" /\ k = Len(va_log)) => va_i = k + 1
            /\ (va_pc = "returned" /\ k = Len(va_log)) =>
                   k = Len(va_addresses)

\* C8 witness: the compiler fails for the first candidate and the second
\* candidate is returned
C8_Witness ==
    /\ va_pc = "returned"
    /\ Len(va_log) = 2
    /\ va_log[1].outcome = InvalidCompilation
    /\ va_result[1] = va_addresses[2]

(***************************************************************************)
(* process_contract                                                        *)
(***************************************************************************)

\* One pass of the loop of lines 173-219 with found still False: the commit
\* is checked out and the file parsed; the candidates of its contracts are
\* verified; at the first that verifies the detectors run and the row is
\* written.
ProcessContractCommit ==
    /\ pcn_pc = "loop"
    /\ pcn_i <= NumCommits
    /\ ~pcn_found
    /\ pcn_checkouts' = Append(pcn_checkouts, Commits[pcn_i])
    /\ pcn_i' = pcn_i + 1
    /\ \E children \in ParsedChildren \cup {ParseError},
          outcomes \in [Addresses -> CompilerOutcomes] :
        IF children = ParseError
        THEN /\ UNCHANGED <<store, pcn_found, pcn_analysed, pcn_matched,
                            pcn_rows, pcn_pc>>
        ELSE \E m \in {first_verified_child(store, children, 1, pcn_pages,
                                            outcomes)} :
                 /\ store' = m.store
                 /\ IF m.pc = "returned" /\ m.address # None
                    THEN /\ pcn_found' = TRUE
                         /\ pcn_analysed' = Append(pcn_analysed, Commits[pcn_i])
                         /\ \E slither \in SlitherResults,
                               oyente \in OyenteResults :
                             \E col \in {vuln_col_of(slither, oyente)} :
                             \E written \in
                                 {contract_row(m.contract_name, Commits[pcn_i],
                                      m.address, m.version, col.value)} :
                               /\ pcn_matched' = Append(pcn_matched,
                                      [commit |-> Commits[pcn_i],
                                       contract_name |-> m.contract_name,
                                       address |-> m.address,
                                       version |-> m.version,
                                       slither |-> slither,
                                       oyente |-> oyente])
                               /\ IF col.raised \/ written.raised
                                  THEN /\ pcn_pc' = "raised"
                                       /\ UNCHANGED pcn_rows
                                  ELSE /\ pcn_rows' =
                                              Append(pcn_rows, written.row)
                                       /\ UNCHANGED pcn_pc
                    ELSE /\ pcn_pc' = IF m.pc = "returned" THEN "loop"
                                      ELSE "raised"
                         /\ UNCHANGED <<pcn_found, pcn_analysed, pcn_matched,
                                        pcn_rows>>
    /\ UNCHANGED pcn_pages
    /\ UNCHANGED othersContract

\* Lines 174-175: the next pass of the loop after a match returns
ProcessContractStop ==
    /\ pcn_pc = "loop"
    /\ pcn_i <= NumCommits
    /\ pcn_found
    /\ pcn_pc' = "returned"
    /\ UNCHANGED <<store, pcn_pages, pcn_i, pcn_found, pcn_checkouts,
                   pcn_analysed, pcn_matched, pcn_rows>>
    /\ UNCHANGED othersContract

\* The commit log is used up
ProcessContractEnd ==
    /\ pcn_pc = "loop"
    /\ pcn_i > NumCommits
    /\ pcn_pc' = "returned"
    /\ UNCHANGED <<store, pcn_pages, pcn_i, pcn_found, pcn_checkouts,
                   pcn_analysed, pcn_matched, pcn_rows>>
    /\ UNCHANGED othersContract

NextContract ==
    ProcessContractCommit \/ ProcessContractStop \/ ProcessContractEnd

StartContract ==
    InitContract /\ IdleVerifyCall /\ IdleTrim /\ IdleHash /\ IdleRepo
    /\ IdleLocate
    /\ IdleAdapter
    /\ IdleFetch
    /\ IdleRace
    /\ IdleVulns

SpecContract == StartContract /\ [][NextContract]_vars

\* C9 (as claimed): the commits are checked out newest first; at the first
\* commit where a candidate verifies exactly one row is written, with that
\* commit, the address and the version; no older commit is checked out
\* afterwards and no second row is ever written.  Stated for the runs in
\* which every finding of Oyente was located (none is None).
C9_OneRowAtFirstMatch ==
    /\ pcn_checkouts = SubSeq(Commits, 1, Len(pcn_checkouts))
    /\ Len(pcn_rows) <= 1
    /\ Len(pcn_matched) <= 1
    /\ (/\ Len(pcn_matched) = 1
        /\ \A k \in 1..Len(pcn_matched[1].oyente.vulns) :
               pcn_matched[1].oyente.vulns[k] # NoVulnerability)
       => /\ Len(pcn_rows) = 1
          /\ pcn_rows[1].CommitHashes = pcn_matched[1].commit
          /\ pcn_rows[1].DeploymentAddress = pcn_matched[1].address
          /\ pcn_rows[1].SOLC_Version = pcn_matched[1].version
          /\ pcn_checkouts[Len(pcn_checkouts)] = pcn_matched[1].commit

(***************************************************************************)
(* process_repo                                                            *)
(***************************************************************************)

\* Lines 265-273: the findings of the files at HEAD seed total_vuln
ProcessRepoSeedOn(file_inputs) ==
    /\ pr_pc = "seed"
    /\ \E inputs \in [1..Len(current_sol_files) -> file_inputs] :
       \E vulnerabilities \in {get_vulnerabilities(current_sol_files, inputs, 1)} :
           /\ pr_total_vuln' =
                  py_set_of(vulnerabilities.slither \o vulnerabilities.oyente, {})
           /\ pr_last' = [commit |-> <<"HEAD">>, files |-> <<>>,
                          slither |-> vulnerabilities.slither,
                          oyente |-> vulnerabilities.oyente,
                          tools |-> vulnerabilities.tools,
                          metadata |-> NoMetadata, rows |-> <<>>]
    /\ pr_pc' = "loop"
    /\ UNCHANGED <<pr_i, pr_total_commits, pr_emitted>>
    /\ UNCHANGED othersRepo

ProcessRepoSeed == ProcessRepoSeedOn(FileInputs)

\* One pass of the loop of line 275, on a commit whose list of changed files
\* is one of file_lists
ProcessRepoCommitOn(file_lists, file_inputs) ==
    /\ pr_pc = "loop"
    /\ pr_i <= Len(commit_hashes)
    /\ pr_i' = pr_i + 1
    /\ \E files \in file_lists :
       \E sol_files \in {changed_sol_files(REPO_PATH, files, current_sol_files)} :
           IF sol_files = <<>>
           THEN \* line 297: no .sol files were changed
                /\ pr_total_commits' =
                       Append(pr_total_commits, commit_hashes[pr_i])
                /\ pr_last' = [NoStep EXCEPT !.commit = commit_hashes[pr_i],
                                             !.files = files]
                /\ UNCHANGED <<pr_total_vuln, pr_emitted>>
           ELSE
             \E inputs \in [1..Len(sol_files) -> file_inputs] :
             \E vulnerabilities \in {get_vulnerabilities(sol_files, inputs, 1)} :
             \E new \in {new_vulnerabilities(detector_items(vulnerabilities), 1,
                            [total_vuln |-> pr_total_vuln,
                             functions_meta |-> <<>>,
                             slither |-> <<>>, oyente |-> <<>>])} :
                /\ pr_total_vuln' = new.total_vuln
                /\ IF new.functions_meta = <<>>
                   THEN \* line 318: nothing new
                        /\ pr_total_commits' =
                               Append(pr_total_commits, commit_hashes[pr_i])
                        /\ pr_last' =
                               [commit |-> commit_hashes[pr_i], files |-> files,
                                slither |-> vulnerabilities.slither,
                                oyente |-> vulnerabilities.oyente,
                                tools |-> vulnerabilities.tools,
                                metadata |-> NoMetadata,
                                rows |-> <<>>]
                        /\ UNCHANGED pr_emitted
                   ELSE \E page \in BranchCommitsPages, reversed \in BOOLEAN :
                        \E metadata \in {get_prid_mergestatus(page)} :
                        \E rows \in
                            {patch_rows(new, metadata,
                                 Append(pr_total_commits, commit_hashes[pr_i]),
                                 reversed)} :
                            /\ pr_total_commits' = <<>>
                            /\ pr_emitted' = Append(pr_emitted,
                                   [at |-> pr_i,
                                    Commits |-> rows[1].Commits])
                            /\ pr_last' =
                                   [commit |-> commit_hashes[pr_i],
                                    files |-> files,
                                    slither |-> vulnerabilities.slither,
                                    oyente |-> vulnerabilities.oyente,
                                    tools |-> Append(vulnerabilities.tools,
                                        [tool |-> "branch_commits",
                                         file |-> commit_hashes[pr_i]]),
                                    metadata |-> metadata,
                                    rows |-> rows]
    /\ UNCHANGED pr_pc
    /\ UNCHANGED othersRepo

ProcessRepoCommit == ProcessRepoCommitOn(ChangedFileLists, FileInputs)

\* The loop has visited every commit
ProcessRepoEnd ==
    /\ pr_pc = "loop"
    /\ pr_i > Len(commit_hashes)
    /\ pr_pc' = "done"
    /\ UNCHANGED <<pr_i, pr_total_vuln, pr_total_commits, pr_last, pr_emitted>>
    /\ UNCHANGED othersRepo

NextRepo == ProcessRepoSeed \/ ProcessRepoCommit \/ ProcessRepoEnd

StartRepo == InitRepo /\ IdleTrim /\ IdleHash /\ IdleVerify /\ IdleContract
    /\ IdleLocate
    /\ IdleAdapter
    /\ IdleFetch
    /\ IdleRace
    /\ IdleVulns

SpecRepo == StartRepo /\ [][NextRepo]_vars

(***************************************************************************)
(* Claims about process_repo                                               *)
(***************************************************************************)

\* The entries (detectors, findings) of a row's Vulnerabilities column
RowEntries(row) == convert_vuln(row.Vulnerabilities).items

\* How many times the text of finding v is listed in the row
TimesListed(row, v) ==
    Cardinality({<<k, j>> \in (1..Len(RowEntries(row))) \X (1..2 * Len(row.Vulnerabilities)) :
        /\ j <= Len(RowEntries(row)[k].vuls)
        /\ RowEntries(row)[k].vuls[j] = vuln_text(v)})

\* The row lists finding v under the detectors Slither|Oyente
ListedUnderBoth(row, v) ==
    \E k \in 1..Len(RowEntries(row)) :
        /\ RowEntries(row)[k].detectors = <<<<"Slither">>, <<"Oyente">>>>
        /\ \E j \in 1..Len(RowEntries(row)[k].vuls) :
               RowEntries(row)[k].vuls[j] = vuln_text(v)

\* The rows of the last pass for the function and contract of finding v
RowsOfGroup(rows, v) ==
    {k \in 1..Len(rows) : /\ rows[k].FunctionName = v.function_name
                          /\ rows[k].ContractName = v.contract_name}

\* C1 (as claimed): when, at one commit, Slither and Oyente each report a
\* finding, the two are equal, and no equal finding was seen before, a row
\* is written for their (function, contract) and it lists the finding under
\* Slither|Oyente, exactly once.
C1_EqualFindingsUnderBoth ==
    [][ pr_i' = pr_i + 1 =>
          \A s \in Items(pr_last'.slither), o \in Items(pr_last'.oyente) :
              ( /\ o # NoVulnerability
                /\ Vulnerability_eq(s, o)
                /\ \A x \in pr_total_vuln \ {NoVulnerability} :
                       ~Vulnerability_eq(x, s) )
              => /\ RowsOfGroup(pr_last'.rows, s) # {}
                 /\ \A k \in RowsOfGroup(pr_last'.rows, s) :
                        /\ ListedUnderBoth(pr_last'.rows[k], s)
                        /\ TimesListed(pr_last'.rows[k], s) = 1 ]_vars

\* A changed file that is a contract source outside the vendored, mock and
\* test directories
IsContractSource(f) ==
    /\ f # <<>>
    /\ endswith_sol(f)
    /\ \A k \in 1..(Len(str_split(f, "/")) - 1) :
           str_split(f, "/")[k] \notin
               {<<"node_modules">>, <<"mocks">>, <<"test">>}

\* The last pass visited a commit none of whose changed files is such a
\* contract source
NothingEligibleChanged ==
    /\ pr_last.commit \in Items(commit_hashes)
    /\ \A k \in 1..Len(pr_last.files) : ~IsContractSource(pr_last.files[k])

\* C10: at a commit whose changed files hold no eligible contract source,
\* process_repo runs no tool (parser, detector, metadata fetch), writes no
\* row, keeps the commit in the span and goes on with the loop.
C10_NoToolWithoutEligibleFile ==
    NothingEligibleChanged =>
        /\ pr_last.tools = <<>>
        /\ pr_last.rows = <<>>
        /\ pr_pc \in {"loop", "done"}
        /\ Len(pr_total_commits) > 0
        /\ pr_total_commits[Len(pr_total_commits)] = pr_last.commit

\* A commit that touched only test/Foo.sol was passed over, after a commit
\* at which the tools did run on a changed file
C10_Witness ==
    /\ pr_last.commit = commit_hashes[2]
    /\ pr_last.files = <<TEST_FOO_SOL>>
    /\ pr_last.tools = <<>>
    /\ pr_total_commits = <<commit_hashes[2]>>
    /\ pr_i = 3

\* How many of the findings reported in a pass are equal to no finding seen
\* before them (in total_vuln or earlier in the pass)
RECURSIVE NewByEquality(_, _)
NewByEquality(seen, items) ==
    IF items = <<>> THEN 0
    ELSE IF \/ Head(items) = NoVulnerability
            \/ \E x \in seen \ {NoVulnerability} : Vulnerability_eq(x, Head(items))
    THEN NewByEquality(seen, Tail(items))
    ELSE 1 + NewByEquality(seen \cup {Head(items)}, Tail(items))

\* C11 (as claimed): in every pass of the walk total_vuln loses no member
\* and grows by exactly the number of findings reported at the commit that
\* are equal to no finding seen earlier.
C11_SeenSetGrowsByNewFindings ==
    [][ pr_i' = pr_i + 1 =>
          /\ pr_total_vuln \subseteq pr_total_vuln'
          /\ Cardinality(pr_total_vuln') =
                 Cardinality(pr_total_vuln)
                     + NewByEquality(pr_total_vuln,
                           pr_last'.slither \o pr_last'.oyente) ]_vars

\* The positions of the commits at which rows were written, in order, after
\* position 0
EmittedAt == <<0>> \o [e \in 1..Len(pr_emitted) |-> pr_emitted[e].at]

\* The hashes of a Commits column
SpanOf(commits) == str_split(commits, ";")

\* C12: the rows of a qualifying commit carry the hashes of the commits
\* traversed after the previous qualifying commit up to the current one, in
\* order; the commits passed without rows wait in total_commits, which is
\* empty after rows are written; no hash is in two spans.
C12_CommitSpans ==
    /\ \A e \in 1..Len(pr_emitted) :
           SpanOf(pr_emitted[e].Commits) =
               SubSeq(commit_hashes, EmittedAt[e] + 1, EmittedAt[e + 1])
    /\ pr_total_commits =
           SubSeq(commit_hashes, EmittedAt[Len(EmittedAt)] + 1, pr_i - 1)
    /\ \A k \in 1..Len(pr_last.rows) :
           /\ Len(pr_emitted) > 0
           /\ pr_last.rows[k].Commits = pr_emitted[Len(pr_emitted)].Commits
           /\ pr_total_commits = <<>>
    /\ \A e, f \in 1..Len(pr_emitted) :
           e # f => Items(SpanOf(pr_emitted[e].Commits))
                        \cap Items(SpanOf(pr_emitted[f].Commits)) = {}

\* Rows were written at the first commit and, after a commit passed without
\* rows, at the third, whose rows carry the second and the third hash
C12_Witness ==
    /\ Len(pr_emitted) = 2
    /\ pr_emitted[1].at = 1
    /\ pr_emitted[2].at = 3
    /\ SpanOf(pr_last.rows[1].Commits) = <<commit_hashes[2], commit_hashes[3]>>
    /\ pr_total_commits = <<>>


(***************************************************************************)
(* A finding, located again after lines were inserted (utils.py,           *)
(* detector_oyente.py)                                                     *)
(***************************************************************************)

\* get_vuln_object for the reported line, on the tree of the file
LocateFirst ==
    /\ lc_pc = "start"
    /\ lc_first' = get_vuln_object(<<"reentrancy">>, TOKEN_SOL, <<"Token">>,
                                   str_int(lc_line), TOKEN_AST)
    /\ lc_pc' = "first"
    /\ UNCHANGED <<lc_line, lc_at, lc_shift, lc_second>>
    /\ UNCHANGED othersLocate

\* get_vuln_object for the line the fragment moved to, on the tree of the
\* file with the lines inserted
LocateSecond ==
    /\ lc_pc = "first"
    /\ lc_second' = get_vuln_object(<<"reentrancy">>, TOKEN_SOL, <<"Token">>,
                        str_int(shifted_line(lc_line, lc_at, lc_shift)),
                        shifted_ast(TOKEN_AST, lc_at, lc_shift))
    /\ lc_pc' = "second"
    /\ UNCHANGED <<lc_line, lc_at, lc_shift, lc_first>>
    /\ UNCHANGED othersLocate

NextLocate == LocateFirst \/ LocateSecond

StartLocate ==
    InitLocate /\ IdleTrim /\ IdleHash /\ IdleVerify /\ IdleContract
        /\ IdleRepo
    /\ IdleAdapter
    /\ IdleFetch
    /\ IdleRace
    /\ IdleVulns

SpecLocate == StartLocate /\ [][NextLocate]_vars

SeenInFile(total_vuln, contract_file_path) ==
    {x \in total_vuln \ {NoVulnerability} :
        x.contract_file_path = contract_file_path}

\* C14 (as claimed): a finding reported in a pass that is equal to no finding
\* seen before in the same file is not suppressed: total_vuln holds a
\* finding of that file equal to it after the pass, whatever was seen in
\* other files.
C14_OtherFileNotSuppressing ==
    [][ pr_i' = pr_i + 1 =>
          \A v \in SetOf(pr_last'.slither \o pr_last'.oyente)
                      \ {NoVulnerability} :
              \E y \in SeenInFile(pr_total_vuln', v.contract_file_path) :
                  Vulnerability_eq(y, v) ]_vars


\* A finding of the list is None (its line was not located), another is not
SomeUnlocated(vulns) ==
    /\ \E k \in 1..Len(vulns) : vulns[k] = NoVulnerability
    /\ \E k \in 1..Len(vulns) : vulns[k] # NoVulnerability

\* The row of a match when the findings that are None are left out
row_of_located(matched) ==
    contract_row(matched.contract_name, matched.commit, matched.address,
        matched.version,
        vuln_col_of(matched.slither,
                    Parsed(Located(matched.oyente.vulns))).value)

\* C16 (as claimed): when the line of a finding is not located at the commit
\* that matched, the finding is left out and process_contract goes on: it
\* does not end by an exception and the row of the match, with the located
\* findings, is written (whenever that row can be written).
C16_UnlocatedFindingSkipped ==
    (/\ Len(pcn_matched) = 1
     /\ SomeUnlocated(pcn_matched[1].oyente.vulns)
     /\ ~row_of_located(pcn_matched[1]).raised)
    => /\ pcn_pc # "raised"
       /\ pcn_rows = <<row_of_located(pcn_matched[1]).row>>


(***************************************************************************)
(* One detector run on a file: execute, then parse unless the output is    *)
(* 'null' (patches.py 221-227, contracts.py 196-204)                       *)
(***************************************************************************)

\* subprocess.run is entered (detector_slither.py 31, detector_oyente.py 53)
AdapterRun ==
    /\ ad_pc = "start"
    /\ ad_pc' = "running"
    /\ UNCHANGED <<ad_tool, ad_proc, ad_out, ad_parsed>>
    /\ UNCHANGED othersAdapter

\* subprocess.run comes back, by its result or by an exception, and the
\* execute function returns.  No timeout is passed to subprocess.run: it
\* comes back only when the process has exited.
AdapterReturn ==
    /\ ad_pc = "running"
    /\ ad_proc.status # "never exits"
    /\ ad_out' = IF ad_tool = "slither" THEN execute_slither(ad_proc)
                 ELSE execute_oyente(ad_proc)
    /\ ad_pc' = "executed"
    /\ UNCHANGED <<ad_tool, ad_proc, ad_parsed>>
    /\ UNCHANGED othersAdapter

\* out_json != 'null': the parse function runs
AdapterParse ==
    /\ ad_pc = "executed"
    /\ ~ad_out.null
    /\ ad_parsed' = IF ad_tool = "slither"
                    THEN parse_slither_detectors(ad_out.out_json, TOKEN_AST,
                                                 SOL_FILE)
                    ELSE parse_oyente_files(ad_out.out_json, TOKEN_AST,
                                            SOL_FILE)
    /\ ad_pc' = IF ad_parsed'.raised THEN "raised" ELSE "parsed"
    /\ UNCHANGED <<ad_tool, ad_proc, ad_out>>
    /\ UNCHANGED othersAdapter

\* out_json == 'null': no parse step
AdapterSkip ==
    /\ ad_pc = "executed"
    /\ ad_out.null
    /\ ad_pc' = "skipped"
    /\ UNCHANGED <<ad_tool, ad_proc, ad_out, ad_parsed>>
    /\ UNCHANGED othersAdapter

NextAdapter == AdapterRun \/ AdapterReturn \/ AdapterParse \/ AdapterSkip

StartAdapter ==
    InitAdapter /\ IdleTrim /\ IdleHash /\ IdleVerify /\ IdleContract
        /\ IdleRepo /\ IdleLocate
    /\ IdleFetch
    /\ IdleRace
    /\ IdleVulns

SpecAdapter == StartAdapter /\ [][NextAdapter]_vars

\* C15: every finding parse_slither_output returns was built from a
\* detector entry all of whose elements have the file under analysis as
\* filename_used, and every finding parse_oyente_output returns was built
\* from the output entry keyed by the file under analysis; the findings
\* carry that file.
C15_ImportedCodeExcluded ==
    ad_pc = "parsed" =>
        /\ Len(ad_parsed.from) = Len(ad_parsed.vulns)
        /\ \A i \in 1..Len(ad_parsed.vulns) :
              /\ ad_parsed.vulns[i] # NoVulnerability
                    => ad_parsed.vulns[i].contract_file_path = SOL_FILE
              /\ IF ad_tool = "slither"
                 THEN \A element \in SetOf(ad_out.out_json.detectors[
                                             ad_parsed.from[i]].elements) :
                          element.filename_used = SOL_FILE
                 ELSE ad_out.out_json.entries[ad_parsed.from[i]].path
                          = SOL_FILE

\* Slither printed two entries with lines of the file; the second also
\* lists a node of the imported file: one finding, built from the first
C15_Witness ==
    /\ ad_pc = "parsed"
    /\ ad_tool = "slither"
    /\ Len(ad_out.out_json.detectors) = 2
    /\ ad_out.out_json.detectors[1].elements
           = <<ELEMENT_FUNCTION, ELEMENT_NODE>>
    /\ ad_out.out_json.detectors[2].elements
           = <<ELEMENT_NODE, ELEMENT_NODE_IMPORTED>>
    /\ ad_parsed.from = <<1>>
    /\ ad_parsed.vulns[1].line_num = <<8, 9>>

\* The process of the tool has exited with an output the claim calls a
\* failure
FailedRun(tool, proc) ==
    \/ proc.returncode # 0
    \/ ~proc.stdout.valid
    \/ tool = "slither" /\ proc.stdout.success # "true"

\* C17 (as claimed): once the execute function has returned, a non-zero
\* exit, an output that is not JSON or (Slither) a success flag that is
\* absent or false gave 'null', and no parse step runs on 'null'.
C17_FailOpen ==
    ad_pc \in {"executed", "parsed", "skipped", "raised"} =>
        /\ FailedRun(ad_tool, ad_proc) => ad_out.null
        /\ ad_pc \in {"parsed", "raised"} => ~ad_out.null
        /\ ad_pc = "skipped" => ad_parsed = NoFindings

\* C18 (as claimed): while the process of a tool never exits, the call is
\* not stuck in subprocess.run: a step that abandons it is possible.
C18_HangAbandoned ==
    (ad_pc = "running" /\ ad_proc.status = "never exits")
        => ENABLED NextAdapter


(***************************************************************************)
(* The walk of process_repo and its requests (patches.py 275-369,          *)
(* http_methods.py)                                                        *)
(***************************************************************************)

\* A pass of the loop that ends at line 298 or 319: nothing to fetch
FetchNothing ==
    /\ ft_pc = "loop"
    /\ ft_i <= NumFetchCommits
    /\ ft_i' = ft_i + 1
    /\ UNCHANGED <<ft_attempts, ft_slept, ft_answers, ft_pc>>
    /\ UNCHANGED othersFetch

\* A pass with new findings reaches line 320: get_prid_mergestatus calls
\* make_request
FetchCall ==
    /\ ft_pc = "loop"
    /\ ft_i <= NumFetchCommits
    /\ ft_attempts' = 0
    /\ ft_slept' = 0
    /\ ft_pc' = "request"
    /\ UNCHANGED <<ft_i, ft_answers>>
    /\ UNCHANGED othersFetch

\* http_methods.py 17-28, 29-33: an attempt that fails; make_request sleeps
\* and calls itself
RequestFails ==
    /\ ft_pc = "request"
    /\ \E wait_time \in WaitTimes, failure \in Failures :
           ft_slept' = wait_time + retry_sleep(failure)
    /\ ft_attempts' = IF ft_attempts < MaxAttempts THEN ft_attempts + 1
                      ELSE MaxAttempts
    /\ UNCHANGED <<ft_i, ft_answers, ft_pc>>
    /\ UNCHANGED othersFetch

\* An attempt that gives status 200: the response is returned through every
\* call in progress (line 35), get_prid_mergestatus returns and the pass
\* goes on to its rows
RequestSucceeds ==
    /\ ft_pc = "request"
    /\ \E wait_time \in WaitTimes, page \in BranchCommitsPages :
           /\ ft_slept' = wait_time
           /\ ft_answers' = Append(ft_answers,
                  [commit |-> commit_hashes[ft_i],
                   attempts |-> IF ft_attempts < MaxAttempts
                                THEN ft_attempts + 1 ELSE MaxAttempts,
                   metadata |-> get_prid_mergestatus(page)])
    /\ ft_attempts' = 0
    /\ ft_i' = ft_i + 1
    /\ ft_pc' = "loop"
    /\ UNCHANGED othersFetch

\* Every commit was visited
FetchEnd ==
    /\ ft_pc = "loop"
    /\ ft_i > NumFetchCommits
    /\ ft_pc' = "done"
    /\ UNCHANGED <<ft_i, ft_attempts, ft_slept, ft_answers>>
    /\ UNCHANGED othersFetch

NextFetch ==
    FetchNothing \/ FetchCall \/ RequestFails \/ RequestSucceeds \/ FetchEnd

StartFetch ==
    InitFetch /\ IdleTrim /\ IdleHash /\ IdleVerify /\ IdleContract
        /\ IdleRepo /\ IdleLocate /\ IdleAdapter
    /\ IdleRace
    /\ IdleVulns

SpecFetch == StartFetch /\ [][NextFetch]_vars

\* The program keeps running: a step that is possible is taken
FairFetch == SpecFetch /\ WF_vars(NextFetch)

\* C19 (as claimed): make_request makes at most a fixed number of attempts
\* and returns after the last one.  The number is not given: for every
\* number below the count the model keeps (MaxAttempts), a call that has
\* failed that often is no longer in progress.
C19_BoundedRetry ==
    ft_pc = "request" => ft_attempts < MaxAttempts

\* C20 (as claimed): process_repo finishes, whatever the collaborators
\* answer.
C20_WalkFinishes ==
    <>(ft_pc = "done")


\* C21: a stored document is never changed, and a lookup fetches the page
\* exactly when no document is stored for the address: with one stored, the
\* lookup returns it as it is; without, the document fetched is the one
\* stored afterwards.
C21_RecordCachedOnce ==
    [][ /\ \A a \in Addresses :
              store[a] # NoRecord => store'[a] = store[a]
        /\ Len(va_log') > Len(va_log) =>
              LET lookup == va_log'[Len(va_log')]
              IN  /\ lookup.fetched = (store[lookup.address] = NoRecord)
                  /\ store[lookup.address] # NoRecord
                         => lookup.obj = store[lookup.address]
                  /\ store'[lookup.address] = lookup.obj ]_vars

\* the same address was looked up twice: fetched the first time, taken from
\* the store the second time
C21_Witness ==
    /\ Len(va_log) = 2
    /\ va_log[1].address = va_log[2].address
    /\ va_log[1].fetched
    /\ ~va_log[2].fetched
    /\ va_log[2].obj = va_log[1].obj
    /\ store[va_log[1].address] = va_log[1].obj


(***************************************************************************)
(* Specification: repository workers looking addresses up in the shared    *)
(* collection. A step is one database or network operation of              *)
(* get_contract_details_from_etherscan in one worker.                      *)
(***************************************************************************)

\* Line 84: objects(deployment_address=...).get() returns the stored
\* document, or raises DoesNotExist and the handler of line 85 is entered
RaceGet(w) ==
    /\ rc_pc[w] = "get"
    /\ rc_todo[w] # <<>>
    /\ LET deployment_address == Head(rc_todo[w])
       IN  IF rc_store[deployment_address] # NoRecord
           THEN /\ rc_returned' =
                       [rc_returned EXCEPT
                            ![w] = Append(@, rc_store[deployment_address])]
                /\ rc_todo' = [rc_todo EXCEPT ![w] = Tail(@)]
                /\ UNCHANGED rc_pc
           ELSE /\ rc_pc' = [rc_pc EXCEPT ![w] = "fetch"]
                /\ UNCHANGED <<rc_returned, rc_todo>>
    /\ UNCHANGED <<rc_store, rc_obj, rc_raised, othersRace>>

\* Lines 88-107: the page is requested and the document built from it
RaceFetch(w) ==
    /\ rc_pc[w] = "fetch"
    /\ \E page \in EtherscanPages :
          rc_obj' = [rc_obj EXCEPT
                         ![w] = DeploymentAddressDetails(Head(rc_todo[w]), page)]
    /\ rc_pc' = [rc_pc EXCEPT ![w] = "save"]
    /\ UNCHANGED <<rc_store, rc_todo, rc_returned, rc_raised, othersRace>>

\* Lines 108-109: obj.save() inserts the document and it is returned; with
\* a document of that address already in the collection the insert raises
\* NotUniqueError, which nothing up to the worker's entry point catches
RaceSave(w) ==
    /\ rc_pc[w] = "save"
    /\ LET deployment_address == Head(rc_todo[w])
       IN  IF rc_store[deployment_address] = NoRecord
           THEN /\ rc_store' =
                       [rc_store EXCEPT ![deployment_address] = rc_obj[w]]
                /\ rc_returned' =
                       [rc_returned EXCEPT ![w] = Append(@, rc_obj[w])]
                /\ rc_todo' = [rc_todo EXCEPT ![w] = Tail(@)]
                /\ rc_pc' = [rc_pc EXCEPT ![w] = "get"]
                /\ UNCHANGED rc_raised
           ELSE /\ rc_raised' = [rc_raised EXCEPT ![w] = NotUniqueError]
                /\ rc_pc' = [rc_pc EXCEPT ![w] = "failed"]
                /\ UNCHANGED <<rc_store, rc_returned, rc_todo>>
    /\ UNCHANGED <<rc_obj, othersRace>>

\* The worker has no address left
RaceEnd(w) ==
    /\ rc_pc[w] = "get"
    /\ rc_todo[w] = <<>>
    /\ rc_pc' = [rc_pc EXCEPT ![w] = "done"]
    /\ UNCHANGED <<rc_store, rc_todo, rc_obj, rc_returned, rc_raised,
                   othersRace>>

NextRace ==
    \E w \in Workers :
        \/ RaceGet(w)
        \/ RaceFetch(w)
        \/ RaceSave(w)
        \/ RaceEnd(w)

StartRace ==
    InitRace /\ IdleTrim /\ IdleHash /\ IdleVerify /\ IdleContract
        /\ IdleRepo /\ IdleLocate /\ IdleAdapter /\ IdleFetch
    /\ IdleVulns

SpecRace == StartRace /\ [][NextRace]_vars

\* C22: no worker is ended by the lookup: a worker that fetched an address
\* another worker fetched at the same time still gets a document back.
C22_RaceHarmless ==
    \A w \in Workers : rc_pc[w] # "failed"

\* a worker was ended by NotUniqueError on saving the document of an address
\* another worker has saved in between; that worker's lookup returns nothing
C22_SecondSaveRaises ==
    \E v, w \in Workers :
        /\ v # w
        /\ rc_pc[w] = "failed"
        /\ rc_raised[w] = NotUniqueError
        /\ rc_todo[w] # <<>>
        /\ rc_returned[w] = <<>>
        /\ rc_store[Head(rc_todo[w])] # NoRecord
        /\ rc_store[Head(rc_todo[w])] \in SetOf(rc_returned[v])


\* The nodes get_node_and_node_path looks for: the state-level declarations,
\* the struct and enum members, and the statements of function and modifier
\* bodies of every contract
LocatableNodes(ast) ==
    UNION {
        LET child == ast.children[c]
        IN  IF child.type # "ContractDefinition" THEN {}
            ELSE UNION {
                LET subNode == child.subNodes[j]
                IN  IF subNode.type \in {"StateVariableDeclaration",
                                         "UsingForDeclaration",
                                         "EventDefinition"}
                    THEN {subNode}
                    ELSE IF subNode.type \in {"StructDefinition",
                                              "EnumDefinition"}
                    THEN SetOf(subNode.members)
                    ELSE IF subNode.type \in {"FunctionDefinition",
                                              "ModifierDefinition"}
                    THEN SetOf(statements_of(subNode))
                    ELSE {}
                : j \in 1..Len(child.subNodes)}
        : c \in 1..Len(ast.children)}

\* those whose lines hold the line
NodesHolding(ast, line) ==
    {n \in LocatableNodes(ast) :
        n.loc.start.line <= line /\ line <= n.loc.end.line}

\* C23: for a line held by a state-level declaration, a member or a body
\* statement, the node located is the innermost such node holding the line;
\* the search raises only for a line that none of them holds.
C23_LocatorCoversRange ==
    lc_pc # "start" =>
        LET holding == NodesHolding(TOKEN_AST, lc_line)
        IN  IF holding = {} THEN lc_first = NoVulnerability
            ELSE /\ lc_first # NoVulnerability
                 /\ \E n \in holding :
                       /\ \A m \in holding :
                             /\ m.loc.start.line <= n.loc.start.line
                             /\ n.loc.end.line <= m.loc.end.line
                       /\ lc_first.ast_node = remove_loc_info(n)

\* the second line of the three-line if statement of pay: the statement
\* holds the line and the search raised
C23_InnerLineNotFound ==
    /\ lc_pc # "start"
    /\ lc_line = 17
    /\ \E n \in NodesHolding(TOKEN_AST, lc_line) : n.type = "IfStatement"
    /\ lc_first = NoVulnerability


\* The detector entry has a function element
HasFunctionElement(detector) ==
    \E e \in 1..Len(detector.elements) :
        detector.elements[e].type = "function"

\* The names the entry's own function elements give
OwnNames(detector) ==
    {<<detector.elements[e].name, detector.elements[e].parent>> :
        e \in {i \in 1..Len(detector.elements) :
                  detector.elements[i].type = "function"}}

\* A complete entry: elements of the analysed file only, a function element,
\* and node lines of which the first is located
CompleteEntry(detector) ==
    /\ HasFunctionElement(detector)
    /\ \A e \in 1..Len(detector.elements) :
          detector.elements[e].filename_used = SOL_FILE
    /\ \E e \in 1..Len(detector.elements) :
          /\ detector.elements[e].type = "node"
          /\ \A i \in 1..(e - 1) : detector.elements[i].type # "node"
          /\ get_node_and_node_path(TOKEN_AST,
                                    detector.elements[e].lines[1]).found

\* C24: parsing Slither's detector entries does not raise; no finding is
\* built from an entry without a function element, every finding carries a
\* function and contract name given by its own entry, and every complete
\* entry gives a finding whatever the other entries are.
C24_MalformedEntrySkipped ==
    (ad_tool = "slither" /\ ad_pc \in {"parsed", "raised"}) =>
        LET detectors == ad_out.out_json.detectors
        IN  /\ ad_pc # "raised"
            /\ \A k \in 1..Len(ad_parsed.vulns) :
                  /\ HasFunctionElement(detectors[ad_parsed.from[k]])
                  /\ <<ad_parsed.vulns[k].function_name,
                       ad_parsed.vulns[k].contract_name>>
                         \in OwnNames(detectors[ad_parsed.from[k]])
            /\ \A d \in 1..Len(detectors) :
                  CompleteEntry(detectors[d]) => d \in SetOf(ad_parsed.from)

\* the second entry has a node of Token's withdraw and no function element;
\* the first, skipped as imported, named the function pay of Wallet: the
\* finding built from the second entry carries pay and Wallet
C24_StaleNames ==
    /\ ad_tool = "slither"
    /\ ad_pc = "parsed"
    /\ Len(ad_out.out_json.detectors) = 2
    /\ ad_out.out_json.detectors[1].elements = <<ELEMENT_FUNCTION_IMPORTED>>
    /\ ad_out.out_json.detectors[2].elements = <<ELEMENT_NODE>>
    /\ Len(ad_parsed.vulns) = 1
    /\ ad_parsed.from = <<2>>
    /\ ad_parsed.vulns[1].function_name = <<"pay">>
    /\ ad_parsed.vulns[1].contract_name = <<"Wallet">>


\* C25: every record written at a commit carries the merge status and the
\* pull-request id that get_prid_mergestatus returned for the commit.
C25_MetadataPassedThrough ==
    \A k \in 1..Len(pr_last.rows) :
        /\ pr_last.rows[k].Merged = pr_last.metadata.merged_status
        /\ pr_last.rows[k].PRID = pr_last.metadata.prid

\* the commit has no pull request: get_prid_mergestatus returned 'False',
\* the record says 'True'
C25_UnmergedRecordedMerged ==
    /\ pr_last.rows # <<>>
    /\ pr_last.metadata = [prid |-> <<"null">>, merged_status |-> <<"False">>]
    /\ pr_last.rows[1].PRID = <<"null">>
    /\ pr_last.rows[1].Merged = <<"True">>


(***************************************************************************)
(* Specification: process_repo on a repository whose commits change two    *)
(* contract files at once, both analysed by both detectors.                *)
(***************************************************************************)

\* What git log --name-only prints for these commits
PairFileLists == {<<TOKEN_SOL, WALLET_SOL>>, <<README_MD>>}

\* Both files have a compatible pragma and both tools are run on them:
\* each prints 'null' or its findings
PairInputs ==
    [err : {FALSE}, pragma : {<<<<0, 6, 0>>, <<0, 5, 17>>>>},
     slither : {NullJson, Parsed(<<REPORT_A>>)},
     oyente : {NullJson, Parsed(<<REPORT_A>>), Parsed(<<REPORT_B, REPORT_C>>)}]

ProcessPairSeed == ProcessRepoSeedOn(PairInputs)

ProcessPairCommit == ProcessRepoCommitOn(PairFileLists, PairInputs)

NextRepoPair == ProcessPairSeed \/ ProcessPairCommit \/ ProcessRepoEnd

SpecRepoPair == StartRepo /\ [][NextRepoPair]_vars

\* The (function name, contract name) pairs with a new finding at the last
\* commit: a finding of the commit that total_vuln did not hold before
PairOf(v) == <<v.function_name, v.contract_name>>

\* C26: the records written at a commit are one for every (function name,
\* contract name) pair with a new finding, and no two of them have the
\* same pair.
C26_OneRecordPerGroup ==
    [][ (pr_pc = "loop" /\ pr_i' = pr_i + 1) =>
          LET found == Located(pr_last'.slither \o pr_last'.oyente)
              new == {found[k] : k \in {i \in 1..Len(found) :
                         ~py_set_contains(pr_total_vuln, found[i])}}
              rows == pr_last'.rows
          IN  /\ \A v \in new :
                    \E k \in 1..Len(rows) :
                        <<rows[k].FunctionName, rows[k].ContractName>>
                            = PairOf(v)
              /\ \A k \in 1..Len(rows) :
                    \E v \in new :
                        <<rows[k].FunctionName, rows[k].ContractName>>
                            = PairOf(v)
              /\ \A j, k \in 1..Len(rows) :
                    (rows[j].FunctionName = rows[k].FunctionName
                        /\ rows[j].ContractName = rows[k].ContractName)
                    => j = k ]_vars

\* two records of one commit for function withdraw of contract Token, one
\* per file
C26_TwoRecordsOneGroup ==
    /\ Len(pr_last.rows) >= 2
    /\ \E j, k \in 1..Len(pr_last.rows) :
          /\ j # k
          /\ pr_last.rows[j].FunctionName = <<"withdraw">>
          /\ pr_last.rows[k].FunctionName = <<"withdraw">>
          /\ pr_last.rows[j].ContractName = pr_last.rows[k].ContractName
          /\ pr_last.rows[j].ContractFilePath
                 # pr_last.rows[k].ContractFilePath


\* C27: total_vuln holds the findings of the HEAD seed and those listed at
\* the commits processed so far; a finding reported at a commit that is
\* equal to one of them is listed in no record of the commit.
C27_NewAtMostOnce ==
    [][ pr_i' = pr_i + 1 =>
          \A v \in SetOf(pr_last'.slither \o pr_last'.oyente)
                      \ {NoVulnerability} :
              (\E x \in pr_total_vuln \ {NoVulnerability} :
                    Vulnerability_eq(x, v))
              => \A k \in RowsOfGroup(pr_last'.rows, v) :
                     TimesListed(pr_last'.rows[k], v) = 0 ]_vars

\* a finding listed in a record of the last commit is equal to a finding
\* that was seen before the commit and not reported at it
C27_ListedAgain ==
    \E x, y \in pr_total_vuln \ {NoVulnerability} :
        /\ x # y
        /\ Vulnerability_eq(x, y)
        /\ x \notin SetOf(pr_last.slither \o pr_last.oyente)
        /\ y \in SetOf(pr_last.slither \o pr_last.oyente)
        /\ \E k \in RowsOfGroup(pr_last.rows, y) :
               TimesListed(pr_last.rows[k], y) >= 1


\* The row lists finding v under the one detector named
ListedUnderOnly(row, v, detector) ==
    \E k \in 1..Len(RowEntries(row)) :
        /\ RowEntries(row)[k].detectors = <<detector>>
        /\ \E j \in 1..Len(RowEntries(row)[k].vuls) :
               RowEntries(row)[k].vuls[j] = vuln_text(v)

\* The detector's findings of the commit hold one equal to v
ReportedBy(vulns, v) ==
    \E x \in SetOf(vulns) \ {NoVulnerability} : Vulnerability_eq(x, v)

\* C28: a finding that a record lists under Slither|Oyente was reported at
\* the commit by both detectors; a finding listed in a record that only one
\* detector reported is listed under that detector's own group.
C28_ProvenanceSound ==
    \A v \in SetOf(pr_last.slither \o pr_last.oyente) \ {NoVulnerability} :
        \A k \in RowsOfGroup(pr_last.rows, v) :
            /\ ListedUnderBoth(pr_last.rows[k], v)
                   => /\ ReportedBy(pr_last.slither, v)
                      /\ ReportedBy(pr_last.oyente, v)
            /\ ( /\ TimesListed(pr_last.rows[k], v) >= 1
                 /\ ReportedBy(pr_last.slither, v)
                 /\ ~ReportedBy(pr_last.oyente, v) )
                   => ListedUnderOnly(pr_last.rows[k], v, <<"Slither">>)
            /\ ( /\ TimesListed(pr_last.rows[k], v) >= 1
                 /\ ReportedBy(pr_last.oyente, v)
                 /\ ~ReportedBy(pr_last.slither, v) )
                   => ListedUnderOnly(pr_last.rows[k], v, <<"Oyente">>)

\* Slither reported one finding and Oyente a different one in the same
\* function of the same contract: the record lists both under
\* Slither|Oyente, and none under a detector of its own
C28_OneDetectorUnderBoth ==
    \E s \in SetOf(pr_last.slither), o \in SetOf(pr_last.oyente) :
        /\ o # NoVulnerability
        /\ ~Vulnerability_eq(s, o)
        /\ ~ReportedBy(pr_last.oyente, s)
        /\ ~ReportedBy(pr_last.slither, o)
        /\ PairOf(s) = PairOf(o)
        /\ \E k \in RowsOfGroup(pr_last.rows, s) :
              /\ ListedUnderBoth(pr_last.rows[k], s)
              /\ ListedUnderBoth(pr_last.rows[k], o)
              /\ ~ListedUnderOnly(pr_last.rows[k], s, <<"Slither">>)
              /\ ~ListedUnderOnly(pr_last.rows[k], o, <<"Oyente">>)


\* The path of each kind of node, as built for the first contract of a
\* file: a state-level declaration, a struct or enum member, a statement
PATH_MEMBER ==
    JoinTokens(<<"children", "[*]", "subNodes", "[*]", "member", "[*]">>, ".")

KindPath(node) ==
    IF node.type \in {"StateVariableDeclaration", "UsingForDeclaration",
                      "EventDefinition"}
    THEN PATH_STATE
    ELSE IF node.type \in {"VariableDeclaration", "EnumValue"}
    THEN PATH_MEMBER
    ELSE PATH_STATEMENT

\* C29: the path of a located node is the path of its kind, whichever
\* contract of the file holds the node.
C29_PathPositionIndependent ==
    (lc_pc # "start" /\ lc_first # NoVulnerability) =>
        lc_first.ast_node_path = KindPath(lc_first.ast_node)

\* the statement at line 15, in the second contract, is the statement of
\* line 8 in the first; its path has one 'subNodes.[*]' more
C29_SecondContractLongerPath ==
    /\ lc_pc # "start"
    /\ lc_line = 15
    /\ lc_first # NoVulnerability
    /\ lc_first.ast_node = get_node_and_node_path(TOKEN_AST, 8).node
    /\ JoinTokens(get_node_and_node_path(TOKEN_AST, 8).path, ".")
           = PATH_STATEMENT
    /\ lc_first.ast_node_path =
           JoinTokens(<<"children", "[*]", "subNodes", "[*]",
                        "subNodes", "[*]", "body", "statements", "[*]">>, ".")


(***************************************************************************)
(* Specification: get_vulnerabilities on the contract files of the         *)
(* working tree                                                            *)
(***************************************************************************)

GetVulnerabilities ==
    /\ gv_pc = "start"
    /\ gv_vulns' = get_vulnerabilities(current_sol_files, gv_inputs, 1)
    /\ gv_pc' = "returned"
    /\ UNCHANGED gv_inputs
    /\ UNCHANGED othersVulns

NextVulns == GetVulnerabilities

StartVulns ==
    InitVulns /\ IdleTrim /\ IdleHash /\ IdleVerify /\ IdleContract
        /\ IdleRepo /\ IdleLocate /\ IdleAdapter /\ IdleFetch /\ IdleRace

SpecVulns == StartVulns /\ [][NextVulns]_vars

\* The file parses and its pragma names a compatible version
Analysable(input) ==
    ~input.err /\ get_solc_version(input.pragma).found

\* The detector was run on the file
RunOn(tool, sol_file) ==
    [tool |-> tool, file |-> sol_file] \in SetOf(gv_vulns.tools)

\* C30: of the files of the list, those that parse and have a compatible
\* pragma are analysed by both detectors, wherever in the list the other
\* files are; on the others no detector is run.
C30_FileFailureIsolated ==
    gv_pc = "returned" =>
        \A k \in 1..Len(current_sol_files) :
            /\ RunOn("slither", current_sol_files[k])
                   = Analysable(gv_inputs[k])
            /\ RunOn("oyente", current_sol_files[k])
                   = Analysable(gv_inputs[k])

\* the first file has no pragma, the second parses and has a compatible
\* one: the second is not parsed and no detector is run on it
C30_LaterFileDropped ==
    /\ gv_pc = "returned"
    /\ ~gv_inputs[1].err
    /\ gv_inputs[1].pragma = <<>>
    /\ Analysable(gv_inputs[2])
    /\ gv_inputs[2].oyente # NullJson
    /\ gv_vulns.tools = <<[tool |-> "parse_solc", file |-> current_sol_files[1]]>>
    /\ gv_vulns.oyente = <<>>

=============================================================================
